---- MODULE Spec2Model ----
(***************************************************************************)
(* A model of the FinanceAI backend pipeline: the AI provider manager      *)
(* (services/aiProviders.js), the Redis backed cache (services/cache.js)   *)
(* and the WebSocket streaming sessions of server.js, with the generators  *)
(* of services/llm.js and services/stock.js.                               *)
(*                                                                         *)
(* Every asynchronous handler is a process; one action is the code that    *)
(* runs between two awaits.                                                *)
(***************************************************************************)
EXTENDS Integers, Sequences, FiniteSets, TLC

\* ------------------------------------------------------------------ bounds
\* provider calls explored inside one makeRequest invocation
MaxCalls == 3
\* makeRequest invocations explored in one run
MaxInvocations == 3

\* the concurrently running handlers
Procs == {"p1", "p2"}

None == "none"

\* ------------------------------------------------------- provider manager
GeminiDailyLimit == 50
OpenAIDailyLimit == 100
GeminiPriority == 1
OpenAIPriority == 2
\* options.complexity || 0.5, in tenths
DefaultComplexity == 5
\* the complexity below which selectProvider prefers gemini, in tenths
LowComplexity == 3

\* Object.values(this.providers), in insertion order
ProviderNames == <<"gemini", "openai">>
ProviderSet == {ProviderNames[i] : i \in DOMAIN ProviderNames}

NoProvidersMsg == "No AI providers available"
ApiErrorMsg == "provider call failed"

VARIABLES
    providers,      \* AIProviderManager.providers: name -> descriptor
    mr,             \* per handler: the makeRequest invocation it awaits
    invocations,    \* top-level makeRequest invocations started so far
    redisUp,        \* the Redis connection of the cache service is usable
    now,            \* wall clock, in seconds
    redis,          \* the Redis keyspace: key -> entry
    cs,             \* per handler: the cacheService call it awaits
    cacheOps,       \* cacheService calls started by the cache clients
    lastSet,        \* per cache key: the last value write that reached Redis
    ss,             \* per handler: the WebSocket session it serves
    rl,             \* the Redis keyspace of the rate limiter: key -> entry
    rlStatus,       \* the Redis client of the rate limiter: wait, connecting
                    \* (or reconnecting), ready, failing (ready, commands rejected)
    rlLog,          \* per limiter key: the totalHits returned since the key was created
    rlFirst,        \* per limiter key: when the first hit of the stored count arrived
    requests,       \* REST requests received so far
    rq,             \* per handler: the REST request it serves
    rk,             \* a sortSources call: its arguments and what it returned
    kq              \* generateKey calls: their arguments and what they returned

pmVars == <<providers, mr, invocations>>
cacheVars == <<redisUp, now, redis, cs, cacheOps, lastSet>>
sessVars == <<ss>>
limiterVars == <<rl, rlStatus, rlLog, rlFirst, requests>>
restVars == <<rq>>
pureVars == <<rk, kq>>
vars == <<pmVars, cacheVars, sessVars, limiterVars, restVars, pureVars>>

\* the descriptors the constructor builds, for given credentials and usage
ProviderTable(keys, usage) ==
    [n \in ProviderSet |->
        [name |-> n,
         key |-> keys[n],
         dailyLimit |-> IF n = "gemini" THEN GeminiDailyLimit ELSE OpenAIDailyLimit,
         priority |-> IF n = "gemini" THEN GeminiPriority ELSE OpenAIPriority,
         currentUsage |-> usage[n]]]

canUseProvider(provs, providerName) ==
    /\ providerName \in DOMAIN provs
    /\ provs[providerName].key
    /\ provs[providerName].currentUsage < provs[providerName].dailyLimit

\* a mutant: openai is tried before gemini
selectProviderOpenAIFirst(provs, complexity) ==
    IF canUseProvider(provs, "openai") THEN "openai"
    ELSE IF canUseProvider(provs, "gemini") THEN "gemini"
    ELSE None

\* a mutant: the last resort is returned without its eligibility check
selectProviderUnchecked(provs, complexity) ==
    IF canUseProvider(provs, "gemini") THEN "gemini" ELSE "openai"

\* None stands for the throw of 'No AI providers available'
selectProvider(provs, complexity) ==
    IF complexity < LowComplexity /\ canUseProvider(provs, "gemini") THEN "gemini"
    ELSE IF canUseProvider(provs, "gemini") THEN "gemini"
    ELSE IF canUseProvider(provs, "openai") THEN "openai"
    ELSE None

\* filter(...).sort(by priority)[0]; None stands for undefined
getFallbackProvider(provs, excludeProvider) ==
    LET cands == {n \in ProviderSet : n # excludeProvider /\ canUseProvider(provs, n)}
    IN IF cands = {} THEN None
       ELSE CHOOSE n \in cands : \A m \in cands : provs[n].priority <= provs[m].priority

\* a mutant: the counter of the other provider is incremented
usageAfterSuccessWrongProvider(provs, name) ==
    LET other == IF name = "gemini" THEN "openai" ELSE "gemini"
    IN [provs EXCEPT ![other].currentUsage = @ + 1]

\* this.providers[provider.name].currentUsage++
usageAfterSuccess(provs, name) ==
    [provs EXCEPT ![name].currentUsage = @ + 1]

\* a mutant: a failed call is counted too
usageAfterFailureCounted(provs, name) ==
    [provs EXCEPT ![name].currentUsage = @ + 1]

\* the catch block of makeRequest leaves the counters alone
usageAfterFailure(provs, name) == provs

IdleRequest ==
    [pc |-> "idle", provider |-> None, calls |-> <<>>, exclude |-> None,
     error |-> None, response |-> None]

\* makeRequest from its entry to its first await: selectProvider, then the
\* request to the selected provider is sent.  excludeProvider is the option
\* the recursive call passes.
EnterMakeRequest(frame, provs, excludeProvider) ==
    LET provider == selectProvider(provs, DefaultComplexity)
    IN IF provider = None
       THEN [frame EXCEPT !.pc = "thrown", !.error = NoProvidersMsg,
                          !.exclude = excludeProvider]
       ELSE [frame EXCEPT !.pc = "calling", !.provider = provider,
                          !.calls = Append(@, provider),
                          !.exclude = excludeProvider]

\* a caller invokes aiProviders.makeRequest(prompt)
MakeRequest(p) ==
    /\ mr[p].pc = "idle"
    /\ invocations < MaxInvocations
    /\ invocations' = invocations + 1
    /\ mr' = [mr EXCEPT ![p] = EnterMakeRequest(IdleRequest, providers, None)]
    /\ UNCHANGED <<providers, cacheVars, sessVars, limiterVars, restVars, pureVars>>

\* callGemini / callOpenAI resolves
CallSucceeds(p) ==
    /\ mr[p].pc = "calling"
    /\ providers' = usageAfterSuccess(providers, mr[p].provider)
    /\ mr' = [mr EXCEPT ![p].pc = "returned",
                        ![p].response = [text |-> "answer", provider |-> mr[p].provider]]
    /\ UNCHANGED <<invocations, cacheVars, sessVars, limiterVars, restVars, pureVars>>

\* callGemini / callOpenAI rejects: the catch block
CallFails(p) ==
    /\ mr[p].pc = "calling"
    /\ providers' = usageAfterFailure(providers, mr[p].provider)
    /\ LET fallback == getFallbackProvider(providers', mr[p].provider)
       IN IF fallback # None
          THEN /\ Len(mr[p].calls) < MaxCalls
               /\ mr' = [mr EXCEPT ![p] =
                            EnterMakeRequest(mr[p], providers', mr[p].provider)]
          ELSE mr' = [mr EXCEPT ![p].pc = "thrown", ![p].error = ApiErrorMsg]
    /\ UNCHANGED <<invocations, cacheVars, sessVars, limiterVars, restVars, pureVars>>

\* the caller takes the response or the error of its invocation
TakeResult(p) ==
    /\ mr[p].pc \in {"returned", "thrown"}
    /\ mr' = [mr EXCEPT ![p] = IdleRequest]
    /\ UNCHANGED <<providers, invocations, cacheVars, sessVars, limiterVars, restVars, pureVars>>

resetDailyUsage ==
    /\ \E n \in ProviderSet : providers[n].currentUsage # 0
    /\ providers' = [n \in ProviderSet |-> [providers[n] EXCEPT !.currentUsage = 0]]
    /\ UNCHANGED <<mr, invocations, cacheVars, sessVars, limiterVars, restVars, pureVars>>

\* the usage counters of a running process: fresh, one below quota, at quota
UsageStarts ==
    {u \in [ProviderSet -> 0 .. OpenAIDailyLimit] :
        /\ u["gemini"] \in {0, GeminiDailyLimit - 1, GeminiDailyLimit}
        /\ u["openai"] \in {0, OpenAIDailyLimit - 1, OpenAIDailyLimit}}

\* the provider table right after construction, both credentials configured
FreshProviders ==
    ProviderTable([n \in ProviderSet |-> TRUE], [n \in ProviderSet |-> 0])

NextProviders ==
    \/ \E p \in Procs : MakeRequest(p)
    \/ \E p \in Procs : CallSucceeds(p)
    \/ \E p \in Procs : CallFails(p)
    \/ \E p \in Procs : TakeResult(p)
    \/ resetDailyUsage


\* ------------------------------------------------------------------ text
\* A string is a sequence of one-character strings.
LowerChar(c) ==
    CASE c = "Q" -> "q" [] c = "X" -> "x" [] c = "M" -> "m" [] c = "S" -> "s"
      [] c = "T" -> "t" [] c = "O" -> "o" [] c = "C" -> "c" [] c = "K" -> "k"
      [] OTHER -> c

UpperChar(c) ==
    CASE c = "q" -> "Q" [] c = "x" -> "X" [] c = "m" -> "M" [] c = "s" -> "S"
      [] c = "t" -> "T" [] c = "o" -> "O" [] c = "c" -> "C" [] c = "k" -> "K"
      [] OTHER -> c

toLowerCase(str) == [i \in DOMAIN str |-> LowerChar(str[i])]
toUpperCase(str) == [i \in DOMAIN str |-> UpperChar(str[i])]

IsSpace(c) == c \in {" ", "\n", "\t"}

RECURSIVE trimStart(_)
trimStart(str) ==
    IF str # <<>> /\ IsSpace(Head(str)) THEN trimStart(Tail(str)) ELSE str

RECURSIVE trimEnd(_)
trimEnd(str) ==
    IF str # <<>> /\ IsSpace(str[Len(str)])
    THEN trimEnd(SubSeq(str, 1, Len(str) - 1)) ELSE str

\* a mutant: only the leading white space is removed
trimStartOnly(str) == trimStart(str)

trim(str) == trimEnd(trimStart(str))

\* Array.prototype.sort on source identifiers; a number stands for a string
\* and the order of the numbers for the order of the strings
RECURSIVE sortAscending(_)
sortAscending(seq) ==
    IF seq = <<>> THEN <<>>
    ELSE LET least == CHOOSE i \in DOMAIN seq : \A j \in DOMAIN seq : seq[i] <= seq[j]
         IN <<seq[least]>> \o
            sortAscending([k \in 1 .. Len(seq) - 1 |->
                              IF k < least THEN seq[k] ELSE seq[k + 1]])

\* a mutant: the end of the slice is ignored
sliceToEnd(seq, from, to) == SubSeq(seq, from + 1, Len(seq))

slice(seq, from, to) ==
    SubSeq(seq, from + 1, IF to < Len(seq) THEN to ELSE Len(seq))

\* String.prototype.split(sep) for a one-character separator
RECURSIVE split(_, _)
split(str, sep) ==
    IF \A i \in DOMAIN str : str[i] # sep THEN <<str>>
    ELSE LET at == CHOOSE i \in DOMAIN str :
                      str[i] = sep /\ \A j \in 1 .. i - 1 : str[j] # sep
         IN <<SubSeq(str, 1, at - 1)>> \o split(SubSeq(str, at + 1, Len(str)), sep)

\* Array.prototype.join(sep)
RECURSIVE join(_, _)
join(words, sep) ==
    IF words = <<>> THEN <<>>
    ELSE IF Len(words) = 1 THEN words[1]
    ELSE words[1] \o sep \o join(Tail(words), sep)

\* ------------------------------------------------------------------ cache
DefaultTTL == 3600
ChatTTL == 1800
StockTTL == 3600
\* a ttl argument that is null, undefined or 0
NoTTL == 0
SourcesInKey == 5
MillisPerSecond == 1000

\* seconds the clock advances in one step, and the last instant explored
TickSeconds == 1800
MaxTime == 3600
\* cacheService calls the cache clients start in one run
MaxCacheOps == 3

\* crypto md5 of the serialized object, taken to be free of collisions: the
\* digest stands for the object it was computed from
md5(normalized) == normalized

generateKey(query, symbol, sources) ==
    LET normalized == [query |-> trim(toLowerCase(query)),
                       symbol |-> toUpperCase(symbol),
                       sources |-> sortAscending(slice(sources, 0, SourcesInKey))]
    IN [prefix |-> "analysis:", hash |-> md5(normalized)]

\* a key not derived yet
NoKey ==
    [prefix |-> "", hash |-> [query |-> <<>>, symbol |-> <<>>, sources |-> <<>>]]

\* time_horizon = "medium-term" when the request carries none
DefaultHorizon == <<"m", "e", "d", "i", "u", "m", "-", "t", "e", "r", "m">>

\* `stock-${stock_name}-${time_horizon}`
stockCacheQuery(stock_name, time_horizon) ==
    <<"s", "t", "o", "c", "k", "-">> \o stock_name \o <<"-">> \o time_horizon

\* what the requests carry: <<>> is a request without the field
ChatQueries == { <<>>, <<"q">>, stockCacheQuery(<<"x">>, DefaultHorizon) }
StockNames == { <<>>, <<"x">> }
NoHorizon == <<>>
Horizons == { NoHorizon }

\* the queries of the cache clients
ClientQueries == { <<"q">>, <<" ", "Q">> }
ClientKeys == {generateKey(q, <<>>, <<>>) : q \in ClientQueries}
CacheKeys ==
    ClientKeys \cup {generateKey(q, <<>>, <<>>) : q \in ChatQueries \ {<<>>}}

ValueKey(key) == [name |-> key, suffix |-> ""]
CountKey(key) == [name |-> key, suffix |-> ":count"]
RedisKeys == {ValueKey(k) : k \in CacheKeys} \cup {CountKey(k) : k \in CacheKeys}

NoExpiry == -1
\* no hit yet
NoTime == -1
Absent == [present |-> FALSE, value |-> <<>>, expireAt |-> NoExpiry]

\* JSON.stringify of an object: its properties in order, as name/value pairs
JSONstringify(names, obj) == [i \in DOMAIN names |-> <<names[i], obj[names[i]]>>]

\* JSON.parse of such a text
JSONparse(text) ==
    [n \in {text[i][1] : i \in DOMAIN text} |->
        LET i == CHOOSE j \in DOMAIN text : text[j][1] = n IN text[i][2]]

\* Redis commands on the keyspace db at time t
RedisGet(db, k) == db[k]

\* a mutant: a key that exists keeps its value
RedisSetexIfAbsent(db, k, seconds, value, t) ==
    IF db[k].present THEN db
    ELSE [db EXCEPT ![k] = [present |-> TRUE, value |-> value, expireAt |-> t + seconds]]

RedisSetex(db, k, seconds, value, t) ==
    [db EXCEPT ![k] = [present |-> TRUE, value |-> value, expireAt |-> t + seconds]]

RedisIncr(db, k) ==
    IF db[k].present
    THEN [db EXCEPT ![k].value = @ + 1]
    ELSE [db EXCEPT ![k] = [present |-> TRUE, value |-> 1, expireAt |-> NoExpiry]]

RedisDel(db, k) == [db EXCEPT ![k] = Absent]

\* the keys whose time to live has run out are gone
RedisExpire(db, t) ==
    [k \in DOMAIN db |->
        IF db[k].present /\ db[k].expireAt # NoExpiry /\ db[k].expireAt <= t
        THEN Absent ELSE db[k]]

NoData == [data |-> None, timestamp |-> 0, version |-> None]

IdleCache ==
    [pc |-> "idle", op |-> None, key |-> NoKey, data |-> None, ttl |-> NoTTL,
     found |-> FALSE, got |-> NoData, ret |-> None, failed |-> FALSE]

\* the message of an error thrown by a cache call
CacheErrorMsg == "cache failure"

NoLastSet == [present |-> FALSE, data |-> None, at |-> 0, ttl |-> 0]

\* a mutant: the catch block of get rethrows
getCatchRethrows == "thrown"

\* catch (error) { return null; }
getCatch == "miss"

\* a mutant: the catch block of set reports success
setCatchReportsSuccess == "true"

\* catch (error) { return false; }
setCatch == "false"

\* a mutant: the requested ttl is ignored
expiryIgnoresTTL(ttl) == DefaultTTL

\* const expiry = ttl || this.defaultTTL
expiry(ttl) == IF ttl = NoTTL THEN DefaultTTL ELSE ttl

\* JSON.stringify({ data, timestamp: Date.now(), version: '1.0' })
cacheText(data, t) ==
    JSONstringify(<<"data", "timestamp", "version">>,
                  [data |-> data, timestamp |-> t * MillisPerSecond, version |-> "1.0"])

\* the frames with which a caller enters get, set and delete
EnterGet(key) == [IdleCache EXCEPT !.pc = "get_read", !.op = "get", !.key = key]

EnterSet(key, data, ttl) ==
    [IdleCache EXCEPT !.pc = "set_value", !.op = "set", !.key = key,
                      !.data = data, !.ttl = ttl]

EnterDelete(key) == [IdleCache EXCEPT !.pc = "del_value", !.op = "delete", !.key = key]

\* get: await this.redis.get(key), JSON.parse
GetRead(p) ==
    /\ cs[p].pc = "get_read"
    /\ IF ~redisUp
       THEN cs' = [cs EXCEPT ![p].pc = "returned", ![p].ret = getCatch,
                             ![p].failed = TRUE]
       ELSE LET cached == RedisGet(redis, ValueKey(cs[p].key))
            IN IF cached.present
               THEN cs' = [cs EXCEPT ![p].pc = "get_incr", ![p].found = TRUE,
                                     ![p].got = JSONparse(cached.value)]
               ELSE cs' = [cs EXCEPT ![p].pc = "returned", ![p].ret = "miss"]
    /\ UNCHANGED <<redisUp, now, redis, cacheOps, lastSet, pmVars, sessVars, limiterVars, restVars, pureVars>>

\* get: await this.redis.incr(`${key}:count`); return data
GetIncr(p) ==
    /\ cs[p].pc = "get_incr"
    /\ IF ~redisUp
       THEN /\ cs' = [cs EXCEPT ![p].pc = "returned", ![p].ret = getCatch,
                                ![p].failed = TRUE]
            /\ UNCHANGED redis
       ELSE /\ redis' = RedisIncr(redis, CountKey(cs[p].key))
            /\ cs' = [cs EXCEPT ![p].pc = "returned", ![p].ret = "hit"]
    /\ UNCHANGED <<redisUp, now, cacheOps, lastSet, pmVars, sessVars, limiterVars, restVars, pureVars>>

\* set: build cacheData, await this.redis.setex(key, expiry, ...)
SetValue(p) ==
    /\ cs[p].pc = "set_value"
    /\ IF ~redisUp
       THEN /\ cs' = [cs EXCEPT ![p].pc = "returned", ![p].ret = setCatch,
                                ![p].failed = TRUE]
            /\ UNCHANGED <<redis, lastSet>>
       ELSE /\ redis' = RedisSetex(redis, ValueKey(cs[p].key), expiry(cs[p].ttl),
                                   cacheText(cs[p].data, now), now)
            /\ cs' = [cs EXCEPT ![p].pc = "set_count"]
            /\ lastSet' = [lastSet EXCEPT ![cs[p].key] =
                              [present |-> TRUE, data |-> cs[p].data, at |-> now,
                               ttl |-> cs[p].ttl]]
    /\ UNCHANGED <<redisUp, now, cacheOps, pmVars, sessVars, limiterVars, restVars, pureVars>>

\* set: await this.redis.setex(`${key}:count`, expiry, '1'); return true
SetCount(p) ==
    /\ cs[p].pc = "set_count"
    /\ IF ~redisUp
       THEN /\ cs' = [cs EXCEPT ![p].pc = "returned", ![p].ret = setCatch,
                                ![p].failed = TRUE]
            /\ UNCHANGED redis
       ELSE /\ redis' = RedisSetex(redis, CountKey(cs[p].key), expiry(cs[p].ttl),
                                   1, now)
            /\ cs' = [cs EXCEPT ![p].pc = "returned", ![p].ret = "true"]
    /\ UNCHANGED <<redisUp, now, cacheOps, lastSet, pmVars, sessVars, limiterVars, restVars, pureVars>>

\* delete: await this.redis.del(key)
DelValue(p) ==
    /\ cs[p].pc = "del_value"
    /\ IF ~redisUp
       THEN /\ cs' = [cs EXCEPT ![p].pc = "returned", ![p].ret = "undefined",
                                ![p].failed = TRUE]
            /\ UNCHANGED <<redis, lastSet>>
       ELSE /\ redis' = RedisDel(redis, ValueKey(cs[p].key))
            /\ cs' = [cs EXCEPT ![p].pc = "del_count"]
            /\ lastSet' = [lastSet EXCEPT ![cs[p].key] = NoLastSet]
    /\ UNCHANGED <<redisUp, now, cacheOps, pmVars, sessVars, limiterVars, restVars, pureVars>>

\* delete: await this.redis.del(`${key}:count`)
DelCount(p) ==
    /\ cs[p].pc = "del_count"
    /\ IF ~redisUp
       THEN /\ cs' = [cs EXCEPT ![p].pc = "returned", ![p].ret = "undefined",
                                ![p].failed = TRUE]
            /\ UNCHANGED redis
       ELSE /\ redis' = RedisDel(redis, CountKey(cs[p].key))
            /\ cs' = [cs EXCEPT ![p].pc = "returned", ![p].ret = "undefined"]
    /\ UNCHANGED <<redisUp, now, cacheOps, lastSet, pmVars, sessVars, limiterVars, restVars, pureVars>>

\* time passes; Redis drops the keys that expire
Tick ==
    /\ now + TickSeconds <= MaxTime
    /\ now' = now + TickSeconds
    /\ redis' = RedisExpire(redis, now')
    /\ rl' = RedisExpire(rl, now')
    /\ rlLog' = [k \in DOMAIN rlLog |-> IF rl'[k].present THEN rlLog[k] ELSE <<>>]
    /\ rlFirst' = [k \in DOMAIN rlFirst |-> IF rl'[k].present THEN rlFirst[k] ELSE NoTime]
    /\ UNCHANGED <<redisUp, cs, cacheOps, lastSet, rlStatus, requests, pmVars,
                   sessVars, restVars, pureVars>>

\* the connection to Redis is lost: commands are rejected
RedisFails ==
    /\ redisUp
    /\ redisUp' = FALSE
    /\ UNCHANGED <<now, redis, cs, cacheOps, lastSet, pmVars, sessVars, limiterVars, restVars, pureVars>>

RedisRecovers ==
    /\ ~redisUp
    /\ redisUp' = TRUE
    /\ UNCHANGED <<now, redis, cs, cacheOps, lastSet, pmVars, sessVars, limiterVars, restVars, pureVars>>

\* the payloads the cache clients store: what the chat handler caches
ClientPayloads ==
    { [sources |-> <<1>>, response |-> <<"a", " ", "b">>, query |-> <<"q">>],
      [sources |-> <<>>, response |-> <<"b">>, query |-> <<" ", "Q">>] }

ClientTTLs == {ChatTTL, StockTTL, NoTTL}

\* cache clients: a caller of cacheService.get / set / delete
ClientGet(p) ==
    /\ cs[p].pc = "idle" /\ cacheOps < MaxCacheOps
    /\ \E k \in ClientKeys : cs' = [cs EXCEPT ![p] = EnterGet(k)]
    /\ cacheOps' = cacheOps + 1
    /\ UNCHANGED <<redisUp, now, redis, lastSet, pmVars, sessVars, limiterVars, restVars, pureVars>>

ClientSet(p) ==
    /\ cs[p].pc = "idle" /\ cacheOps < MaxCacheOps
    /\ \E k \in ClientKeys, d \in ClientPayloads, ttl \in ClientTTLs :
          cs' = [cs EXCEPT ![p] = EnterSet(k, d, ttl)]
    /\ cacheOps' = cacheOps + 1
    /\ UNCHANGED <<redisUp, now, redis, lastSet, pmVars, sessVars, limiterVars, restVars, pureVars>>

ClientDelete(p) ==
    /\ cs[p].pc = "idle" /\ cacheOps < MaxCacheOps
    /\ \E k \in ClientKeys : cs' = [cs EXCEPT ![p] = EnterDelete(k)]
    /\ cacheOps' = cacheOps + 1
    /\ UNCHANGED <<redisUp, now, redis, lastSet, pmVars, sessVars, limiterVars, restVars, pureVars>>

ClientTake(p) ==
    /\ cs[p].pc = "returned"
    /\ cs' = [cs EXCEPT ![p] = IdleCache]
    /\ UNCHANGED <<redisUp, now, redis, cacheOps, lastSet, pmVars, sessVars, limiterVars, restVars, pureVars>>

EmptyRedis == [k \in RedisKeys |-> Absent]

\* ---------------------------------------------------------------- ranking
\* scores are in hundredths
PrimaryThreshold == 30
FallbackThreshold == 10
NeutralScore == 50
ContentWeight == 10
TitleWeight == 30
ScoreCap == 100
\* the number of query words, and of content matches, at which the sum of
\* the content weights is rounded above three tenths
RoundedWords == 3

\* the longest list of search results explored
MaxDocs == 4

\* the search results the lists are drawn from: content, title, the cosine
\* similarity of the embedding of the content with that of the query, and
\* whether getEmbedding rejects for the content
DocTable ==
    << [content |-> <<"q">>, title |-> <<>>, similarity |-> 90, embedFails |-> FALSE],
       [content |-> <<"x">>, title |-> <<"q">>, similarity |-> 50, embedFails |-> FALSE],
       [content |-> <<"x">>, title |-> <<>>, similarity |-> 20, embedFails |-> FALSE],
       [content |-> <<"Q", " ", "q">>, title |-> <<>>, similarity |-> 35,
        embedFails |-> FALSE],
       [content |-> <<"q", "q">>, title |-> <<>>, similarity |-> 30, embedFails |-> FALSE],
       [content |-> <<>>, title |-> <<"q">>, similarity |-> 40, embedFails |-> FALSE],
       [content |-> <<" ">>, title |-> <<"Q">>, similarity |-> 60, embedFails |-> FALSE],
       [content |-> <<"q">>, title |-> <<"q">>, similarity |-> 70, embedFails |-> TRUE],
       [content |-> <<"x", " ", "q">>, title |-> <<>>, similarity |-> 80,
        embedFails |-> FALSE] >>

DocIds == DOMAIN DocTable

Document(id) ==
    [id |-> id, content |-> DocTable[id].content, title |-> DocTable[id].title,
     similarity |-> DocTable[id].similarity, embedFails |-> DocTable[id].embedFails]

\* the lists of distinct search results
DocLists ==
    {ids \in UNION {[1 .. n -> DocIds] : n \in 0 .. MaxDocs} :
        \A i, j \in DOMAIN ids : i # j => ids[i] # ids[j]}

\* "(" is a word that new RegExp rejects
RankQueries == { <<"q">>, <<"Q", " ", "x">>, <<"(">>, <<"q", " ", "x", " ", "q">> }

\* !content || content.trim().length === 0
blankContent(content) == content = <<>> \/ Len(trim(content)) = 0

\* a mutant: a similarity equal to the threshold is kept
relevantFromThreshold(similarity) == similarity >= PrimaryThreshold

\* if (similarity > 0.3)
relevant(similarity) == similarity > PrimaryThreshold

\* what a returned document carries: scale is the number by which
\* relevance_score, in hundredths, is still to be divided
scored(result, score, scale) ==
    [id |-> result.id, content |-> result.content, title |-> result.title,
     relevance_score |-> score, scale |-> scale]

\* Array.prototype.sort((a, b) => b.relevance_score - a.relevance_score):
\* descending and stable
RECURSIVE sortDescending(_)
sortDescending(seq) ==
    IF seq = <<>> THEN <<>>
    ELSE LET best == CHOOSE i \in DOMAIN seq :
                        /\ \A j \in DOMAIN seq :
                              seq[i].relevance_score >= seq[j].relevance_score
                        /\ \A j \in 1 .. i - 1 :
                              seq[j].relevance_score < seq[i].relevance_score
         IN <<seq[best]>> \o
            sortDescending([k \in 1 .. Len(seq) - 1 |->
                               IF k < best THEN seq[k] ELSE seq[k + 1]])

\* the loop of the primary path: blank content and failed embeddings are
\* skipped, the others are scored and kept above the threshold
RECURSIVE primaryRelevant(_)
primaryRelevant(searchResults) ==
    IF searchResults = <<>> THEN <<>>
    ELSE LET result == Head(searchResults)
             rest == primaryRelevant(Tail(searchResults))
         IN IF blankContent(result.content) \/ result.embedFails
               \/ ~relevant(result.similarity)
            THEN rest
            ELSE <<scored(result, result.similarity, 1)>> \o rest

\* new RegExp(word, 'g') throws a SyntaxError
regexThrows(word) == \E i \in DOMAIN word : word[i] = "("

\* (text.match(new RegExp(word, 'g')) || []).length: the matches do not
\* overlap; the empty pattern matches once at every position
RECURSIVE countMatches(_, _)
countMatches(text, word) ==
    IF word = <<>> THEN Len(text) + 1
    ELSE IF Len(text) < Len(word) THEN 0
    ELSE IF SubSeq(text, 1, Len(word)) = word
    THEN 1 + countMatches(SubSeq(text, Len(word) + 1, Len(text)), word)
    ELSE countMatches(Tail(text), word)

RECURSIVE sumOver(_, _, _)
sumOver(queryWords, content, title) ==
    IF queryWords = <<>> THEN 0
    ELSE countMatches(content, Head(queryWords)) * ContentWeight
         + countMatches(title, Head(queryWords)) * TitleWeight
         + sumOver(Tail(queryWords), content, title)

\* Math.min(score / queryWords.length, 1.0), times queryWords.length
fallbackScore(queryWords, result) ==
    LET score == sumOver(queryWords, toLowerCase(result.content),
                         toLowerCase(result.title))
    IN IF score < ScoreCap * Len(queryWords) THEN score
       ELSE ScoreCap * Len(queryWords)

\* the scores are doubles: 3 * 0.1, 0.1 + 0.2 and 0.1 + 0.1 + 0.1 are
\* 0.30000000000000004, a third of which is 0.10000000000000002, while 0.3
\* is the double 0.3, a third of which is 0.09999999999999999.  For queries
\* of up to three words and up to four matches of a word this is the one sum
\* whose rounding changes the comparison with 0.1 or the order of two scores
RECURSIVE matchesIn(_, _)
matchesIn(queryWords, text) ==
    IF queryWords = <<>> THEN 0
    ELSE countMatches(text, Head(queryWords)) + matchesIn(Tail(queryWords), text)

sumRoundsAbove(queryWords, result) ==
    /\ Len(queryWords) = RoundedWords
    /\ matchesIn(queryWords, toLowerCase(result.content)) = RoundedWords
    /\ matchesIn(queryWords, toLowerCase(result.title)) = 0

\* result.relevance_score > 0.1
aboveThreshold(queryWords, result, score) ==
    \/ score > FallbackThreshold * Len(queryWords)
    \/ score = FallbackThreshold * Len(queryWords) /\ sumRoundsAbove(queryWords, result)

RECURSIVE fallbackRelevant(_, _)
fallbackRelevant(queryWords, searchResults) ==
    IF searchResults = <<>> THEN <<>>
    ELSE LET result == Head(searchResults)
             score == fallbackScore(queryWords, result)
             rest == fallbackRelevant(queryWords, Tail(searchResults))
         IN IF aboveThreshold(queryWords, result, score)
            THEN <<scored(result, score, Len(queryWords))>> \o rest
            ELSE rest

\* fallbackSorting throws when a query word is no regular expression and
\* there is a document to score
fallbackThrows(query, searchResults) ==
    /\ searchResults # <<>>
    /\ \E i \in DOMAIN split(toLowerCase(query), " ") :
          regexThrows(split(toLowerCase(query), " ")[i])

fallbackSorting(query, searchResults) ==
    sortDescending(fallbackRelevant(split(toLowerCase(query), " "), searchResults))

\* a mutant: the catch block returns nothing
failureResultEmpty(searchResults) == <<>>

\* searchResults.map(result => ({ ...result, relevance_score: 0.5 }))
failureResult(searchResults) ==
    [i \in DOMAIN searchResults |-> scored(searchResults[i], NeutralScore, 1)]

\* sortSources, given whether the model is loaded after loadModel and whether
\* getEmbedding rejects for the query
sortSources(query, searchResults, modelLoaded, queryEmbedFails) ==
    IF modelLoaded
    THEN IF queryEmbedFails
         THEN [path |-> "failed", threw |-> FALSE, docs |-> failureResult(searchResults)]
         ELSE [path |-> "primary", threw |-> FALSE,
               docs |-> sortDescending(primaryRelevant(searchResults))]
    ELSE IF fallbackThrows(query, searchResults)
         THEN [path |-> "failed", threw |-> FALSE, docs |-> failureResult(searchResults)]
         ELSE [path |-> "fallback", threw |-> FALSE,
               docs |-> fallbackSorting(query, searchResults)]

\* -------------------------------------------------------------- sessions
\* fragments explored in one provider stream
MaxChunks == 1

SourcesShown == 5
ReplayWords == 3
ReplayChars == 50

\* words.slice(i, i + 3).join(' ') + ' '
replayChunk(words, i) == join(slice(words, i, i + ReplayWords), <<" ">>) \o <<" ">>

\* analysis.match(/.{1,50}/g): the runs of at most 50 characters other than
\* line ends, in order
RECURSIVE matchRuns(_)
matchRuns(str) ==
    IF str = <<>> THEN <<>>
    ELSE IF Head(str) = "\n" THEN matchRuns(Tail(str))
    ELSE LET stops == {i \in DOMAIN str : str[i] = "\n"} \cup {Len(str) + 1}
             stop == CHOOSE i \in stops : \A j \in stops : i <= j
             len == IF stop - 1 < ReplayChars THEN stop - 1 ELSE ReplayChars
         IN <<SubSeq(str, 1, len)>> \o matchRuns(SubSeq(str, len + 1, Len(str)))

\* analysis.match(/.{1,50}/g) || [analysis]
replaySlices(analysis) ==
    IF matchRuns(analysis) = <<>> THEN <<analysis>> ELSE matchRuns(analysis)

\* what the collaborators answer
\* `${stock_name} stock financial analysis investor information`
stockSearchQuery(stock_name) ==
    stock_name \o <<" ", "s", "t", "o", "c", "k", " ", "f", "i", "n", "a", "n", "c", "i",
                    "a", "l", " ", "a", "n", "a", "l", "y", "s", "i", "s", " ", "i", "n",
                    "v", "e", "s", "t", "o", "r", " ", "i", "n", "f", "o", "r", "m", "a",
                    "t", "i", "o", "n">>

\* the query a session searches and ranks with
searchQueryOf(frame) ==
    IF frame.subject = <<>> THEN frame.query ELSE stockSearchQuery(frame.subject)

\* webSearch resolves with the documents of the scenario rk when one is set,
\* with two documents otherwise
SearchResults == IF rk.pc = "idle" THEN { <<1, 2>> } ELSE { rk.ids }

\* the documents sortSources returns for the scenario rk, best first
rankedIds(query, docs) ==
    LET sorted == sortSources(query, [i \in DOMAIN docs |-> Document(docs[i])],
                              rk.modelLoaded, rk.queryEmbedFails).docs
    IN [i \in DOMAIN sorted |-> sorted[i].id]

\* sortSources returns the documents it keeps, best first: those of the
\* scenario rk when one is set, none or both otherwise
Rankings(query, docs) ==
    IF rk.pc = "idle" THEN { <<>>, <<docs[2], docs[1]>> }
    ELSE { rankedIds(query, docs) }
StreamChunks == { <<"b">> }
AnswerText == <<"a", " ", "b">>
ChatErrorText == <<"E", "r", "r", "o", "r", " ", "g">>
StockErrorText == <<"E", "r", "r", "o", "r", " ", "i">>

IdleSession ==
    [pc |-> "idle", kind |-> None, query |-> <<>>, subject |-> <<>>,
     horizon |-> <<>>, key |-> NoKey, path |-> None, cachedAt |-> 0,
     docs |-> <<>>, sorted |-> <<>>, events |-> <<>>, full |-> <<>>,
     words |-> <<>>, i |-> 0, streamed |-> 0, metrics |-> None,
     genFailed |-> FALSE, failedAt |-> 0]

\* the handler returns: its locals are gone, what it sent stays sent
finish(frame) ==
    [IdleSession EXCEPT !.pc = "end", !.kind = frame.kind, !.path = frame.path,
                        !.events = frame.events, !.genFailed = frame.genFailed,
                        !.failedAt = frame.failedAt]

emit(frame, type, data) ==
    [frame EXCEPT !.events = Append(@, [type |-> type, data |-> data])]

\* a mutant: the ranked sources are not sent
emitSearchResultSkipped(frame, sources) == frame

\* socket.emit('search_result', sources)
emitSearchResult(frame, sources) == emit(frame, "search_result", sources)

\* fullResponse += chunk; socket.emit('content', chunk)
emitContent(frame, chunk) ==
    [emit(frame, "content", chunk) EXCEPT !.full = @ \o chunk]

\* the handlers are alike: the first request of a run arrives at p1
MayReceive(p) ==
    /\ ss[p].pc = "idle" /\ rq[p].pc = "idle"
    /\ p = "p1" \/ ss["p1"].pc # "idle" \/ rq["p1"].pc # "idle"

\* socket.on('chat'): validation, cache key, cacheService.get
ChatReceive(p) ==
    /\ MayReceive(p)
    /\ \E query \in ChatQueries :
          IF query = <<>>
          THEN /\ ss' = [ss EXCEPT ![p] =
                            finish(emit([IdleSession EXCEPT !.kind = "chat"],
                                        "error", "Query is required"))]
               /\ UNCHANGED cs
          ELSE /\ ss' = [ss EXCEPT ![p] =
                            [IdleSession EXCEPT !.pc = "cache_check", !.kind = "chat",
                                                !.query = query,
                                                !.key = generateKey(query, <<>>, <<>>)]]
               /\ cs' = [cs EXCEPT ![p] = EnterGet(generateKey(query, <<>>, <<>>))]
    /\ UNCHANGED <<redisUp, now, redis, cacheOps, lastSet, pmVars, limiterVars, restVars, pureVars>>

\* socket.on('stock-analysis'): validation, cache key, cacheService.get
StockReceive(p) ==
    /\ MayReceive(p)
    /\ \E stock_name \in StockNames, given \in Horizons :
          LET time_horizon == IF given = NoHorizon THEN DefaultHorizon ELSE given
              key == generateKey(stockCacheQuery(stock_name, time_horizon), <<>>, <<>>)
          IN IF stock_name = <<>>
             THEN /\ ss' = [ss EXCEPT ![p] =
                               finish(emit([IdleSession EXCEPT !.kind = "stock"],
                                           "error", "Stock name is required"))]
                  /\ UNCHANGED cs
             ELSE /\ ss' = [ss EXCEPT ![p] =
                               [IdleSession EXCEPT !.pc = "cache_check", !.kind = "stock",
                                                   !.subject = stock_name,
                                                   !.horizon = time_horizon,
                                                   !.key = key]]
                  /\ cs' = [cs EXCEPT ![p] = EnterGet(key)]
    /\ UNCHANGED <<redisUp, now, redis, cacheOps, lastSet, pmVars, limiterVars, restVars, pureVars>>

\* the chat handler after a cache hit: sources, then the first three words
ChatHit(frame, cached) ==
    LET shown == emitSearchResult([frame EXCEPT !.path = "hit"], cached.data.sources)
    IN IF "response" \notin DOMAIN cached.data
       THEN finish(emit(shown, "error", "Cannot read properties of undefined"))
       ELSE LET words == split(cached.data.response, " ")
            IN [emit(shown, "content", replayChunk(words, 0))
                   EXCEPT !.pc = "replay", !.words = words, !.i = 0]

\* a mutant: the cached entry is ignored and the search starts
StockHitSearches(frame, cached) == [frame EXCEPT !.path = "hit", !.pc = "searching"]

\* the stock handler after a cache hit: sources, processing, the first slice
StockHit(frame, cached) ==
    LET shown == emit(emitSearchResult([frame EXCEPT !.path = "hit"],
                                       cached.data.sources),
                      "processing", "Loading cached analysis...")
    IN IF "analysis" \notin DOMAIN cached.data
       THEN finish(emit(shown, "error", "Cannot read properties of undefined"))
       ELSE LET chunks == replaySlices(cached.data.analysis)
            IN [emit(shown, "content", chunks[1])
                   EXCEPT !.pc = "replay", !.words = chunks, !.i = 0,
                          !.metrics = cached.data.metrics,
                          !.cachedAt = cached.timestamp]

\* const cached = await cacheService.get(cacheKey); if (cached) ... else search
CacheChecked(p) ==
    /\ ss[p].pc = "cache_check" /\ cs[p].pc = "returned"
    /\ cs' = [cs EXCEPT ![p] = IdleCache]
    /\ IF cs[p].ret = "thrown"
       THEN ss' = [ss EXCEPT ![p] = finish(emit(ss[p], "error", CacheErrorMsg))]
       ELSE IF cs[p].ret = "hit"
       THEN ss' = [ss EXCEPT ![p] =
                      IF ss[p].kind = "chat" THEN ChatHit(ss[p], cs[p].got)
                      ELSE StockHit(ss[p], cs[p].got)]
       ELSE ss' = [ss EXCEPT ![p].pc = "searching", ![p].path = "miss"]
    /\ UNCHANGED <<redisUp, now, redis, cacheOps, lastSet, pmVars, limiterVars, restVars, pureVars>>

\* the replay loops after their pacing delay, and what follows them
ReplayNext(p) ==
    /\ ss[p].pc = "replay"
    /\ LET step == IF ss[p].kind = "chat" THEN ReplayWords ELSE 1
           next == ss[p].i + step
       IN IF next < Len(ss[p].words)
          THEN ss' = [ss EXCEPT ![p] =
                         [emit(ss[p], "content",
                               IF ss[p].kind = "chat" THEN replayChunk(ss[p].words, next)
                               ELSE ss[p].words[next + 1])
                             EXCEPT !.i = next]]
          ELSE IF ss[p].kind = "chat"
          THEN ss' = [ss EXCEPT ![p] =
                         finish(emit(ss[p], "done", [cached |-> TRUE, cache_age |-> -1]))]
          ELSE ss' = [ss EXCEPT ![p] =
                         finish(emit(emit(ss[p], "metrics", ss[p].metrics), "done",
                                     [cached |-> TRUE,
                                      cache_age |->
                                         (now * MillisPerSecond - ss[p].cachedAt)
                                            \div MillisPerSecond]))]
    /\ UNCHANGED <<cacheVars, pmVars, limiterVars, restVars, pureVars>>

\* const searchResults = await searchService.webSearch(...) resolves
SearchReturns(p) ==
    /\ ss[p].pc = "searching"
    /\ \E docs \in SearchResults : ss' = [ss EXCEPT ![p].pc = "ranking", ![p].docs = docs]
    /\ UNCHANGED <<cacheVars, pmVars, limiterVars, restVars, pureVars>>

\* a mutant: the failure of the search is reported and the handler goes on
\* with the documents it has
SearchFailsGoesOn(p) ==
    /\ ss[p].pc = "searching"
    /\ \E docs \in SearchResults :
          ss' = [ss EXCEPT ![p] = [emit(ss[p], "error", "Search failed")
                                      EXCEPT !.pc = "ranking", !.docs = docs]]
    /\ UNCHANGED <<cacheVars, pmVars, limiterVars, restVars, pureVars>>

\* webSearch rejects with 'Search failed: ...': the catch block of the handler
SearchFails(p) ==
    /\ ss[p].pc = "searching"
    /\ ss' = [ss EXCEPT ![p] = finish(emit(ss[p], "error", "Search failed"))]
    /\ UNCHANGED <<cacheVars, pmVars, limiterVars, restVars, pureVars>>

\* chat: sortSources resolves; the sources are sent and generateResponse runs
\* up to its await of aiProviders.makeRequest
ChatRanked(p) ==
    /\ ss[p].pc = "ranking" /\ ss[p].kind = "chat"
    /\ \E sorted \in Rankings(searchQueryOf(ss[p]), ss[p].docs) :
          ss' = [ss EXCEPT ![p] =
                    [emitSearchResult(ss[p], slice(sorted, 0, SourcesShown))
                        EXCEPT !.pc = "gen_request", !.sorted = sorted]]
    /\ mr' = [mr EXCEPT ![p] = EnterMakeRequest(IdleRequest, providers, None)]
    /\ invocations' = invocations + 1
    /\ UNCHANGED <<providers, cacheVars, limiterVars, restVars, pureVars>>

\* chat: makeRequest resolved, response.stream is undefined: yield response.text
ChatProviderReturns(p) ==
    /\ ss[p].pc = "gen_request" /\ mr[p].pc = "returned"
    /\ ss' = [ss EXCEPT ![p] =
                 [emitContent(ss[p], AnswerText) EXCEPT !.pc = "gen_yielded"]]
    /\ mr' = [mr EXCEPT ![p] = IdleRequest]
    /\ UNCHANGED <<providers, invocations, cacheVars, limiterVars, restVars, pureVars>>

\* chat: makeRequest rejected: catch (providerError), the direct Gemini stream
ChatProviderThrows(p) ==
    /\ ss[p].pc = "gen_request" /\ mr[p].pc = "thrown"
    /\ ss' = [ss EXCEPT ![p].pc = "gen_stream"]
    /\ mr' = [mr EXCEPT ![p] = IdleRequest]
    /\ UNCHANGED <<providers, invocations, cacheVars, limiterVars, restVars, pureVars>>

\* stock: sortSources resolves; sources and processing are sent,
\* extractKeyMetrics is started and analyzeStockGenerateResponse runs up to
\* its await of analyzeStockFromWebData
StockRanked(p) ==
    /\ ss[p].pc = "ranking" /\ ss[p].kind = "stock"
    /\ \E sorted \in Rankings(searchQueryOf(ss[p]), ss[p].docs) :
          ss' = [ss EXCEPT ![p] =
                    [emit(emitSearchResult(ss[p], slice(sorted, 0, SourcesShown)),
                          "processing", "Analyzing stock data...")
                        EXCEPT !.pc = "gen_analysis", !.sorted = sorted,
                               !.metrics = "pending"]]
    /\ UNCHANGED <<cacheVars, pmVars, limiterVars, restVars, pureVars>>

\* stock: analyzeStockFromWebData resolves, generateRecommendation is awaited
StockAnalysisReturns(p) ==
    /\ ss[p].pc = "gen_analysis"
    /\ ss' = [ss EXCEPT ![p].pc = "gen_recommend"]
    /\ UNCHANGED <<cacheVars, pmVars, limiterVars, restVars, pureVars>>

\* stock: generateRecommendation resolves (with its text or its error text),
\* generateContentStream is awaited
StockRecommendationReturns(p) ==
    /\ ss[p].pc = "gen_recommend"
    /\ ss' = [ss EXCEPT ![p].pc = "gen_stream"]
    /\ UNCHANGED <<cacheVars, pmVars, limiterVars, restVars, pureVars>>

\* the text the catch block of the generator yields
errorText(kind) == IF kind = "chat" THEN ChatErrorText ELSE StockErrorText

\* the provider fails (analysis call, stream start or stream chunk): the catch
\* block of the generator yields `Error ...: ${error.message}` as a fragment
GenerationFails(p) ==
    /\ ss[p].pc \in {"gen_analysis", "gen_stream"}
    /\ ss' = [ss EXCEPT ![p] =
                 [emitContent(ss[p], errorText(ss[p].kind))
                     EXCEPT !.pc = "gen_yielded", !.genFailed = TRUE,
                            !.failedAt = Len(ss[p].events)]]
    /\ UNCHANGED <<cacheVars, pmVars, limiterVars, restVars, pureVars>>

\* result.stream delivers a fragment: yield chunkText
StreamChunk(p) ==
    /\ ss[p].pc = "gen_stream" /\ ss[p].streamed < MaxChunks
    /\ \E chunk \in StreamChunks :
          ss' = [ss EXCEPT ![p] =
                    [emitContent(ss[p], chunk) EXCEPT !.streamed = @ + 1]]
    /\ UNCHANGED <<cacheVars, pmVars, limiterVars, restVars, pureVars>>

\* the payloads the handlers cache
chatPayload(frame) ==
    [sources |-> slice(frame.sorted, 0, SourcesShown), response |-> frame.full,
     query |-> frame.query]

stockPayload(frame, metrics) ==
    [sources |-> slice(frame.sorted, 0, SourcesShown), analysis |-> frame.full,
     metrics |-> metrics, stock_name |-> frame.subject,
     time_horizon |-> frame.horizon]

\* the generator returns: the for await loop is left.  chat: cacheService.set
\* of the complete result; stock: the race of the metrics against its timeout
GenerationEnds(p) ==
    /\ ss[p].pc \in {"gen_stream", "gen_yielded"}
    /\ IF ss[p].kind = "chat"
       THEN /\ ss' = [ss EXCEPT ![p].pc = "caching"]
            /\ cs' = [cs EXCEPT ![p] = EnterSet(ss[p].key, chatPayload(ss[p]), ChatTTL)]
       ELSE /\ ss' = [ss EXCEPT ![p].pc = "await_metrics"]
            /\ UNCHANGED cs
    /\ UNCHANGED <<redisUp, now, redis, cacheOps, lastSet, pmVars, limiterVars, restVars, pureVars>>

\* stock: the promise of extractKeyMetrics resolves (it never rejects)
MetricsResolve(p) ==
    /\ ss[p].kind = "stock" /\ ss[p].metrics = "pending"
    /\ ss[p].pc \in {"gen_analysis", "gen_recommend", "gen_stream", "gen_yielded",
                     "await_metrics"}
    /\ ss' = [ss EXCEPT ![p].metrics = "extracted"]
    /\ UNCHANGED <<cacheVars, pmVars, limiterVars, restVars, pureVars>>

\* stock: the race is won by the metrics: they are sent and the result cached
MetricsReady(p) ==
    /\ ss[p].pc = "await_metrics" /\ ss[p].metrics = "extracted"
    /\ ss' = [ss EXCEPT ![p] = [emit(ss[p], "metrics", "extracted") EXCEPT !.pc = "caching"]]
    /\ cs' = [cs EXCEPT ![p] =
                 EnterSet(ss[p].key, stockPayload(ss[p], "extracted"), StockTTL)]
    /\ UNCHANGED <<redisUp, now, redis, cacheOps, lastSet, pmVars, limiterVars, restVars, pureVars>>

\* a mutant: the race is between the metrics and nothing
MetricsTimeoutNever(p) ==
    /\ ss[p].pc = "await_metrics" /\ ss[p].metrics = "pending"
    /\ FALSE
    /\ UNCHANGED vars

\* a mutant: on the timeout done is sent without the placeholders
MetricsTimeoutSilent(p) ==
    /\ ss[p].pc = "await_metrics" /\ ss[p].metrics = "pending"
    /\ ss' = [ss EXCEPT ![p] =
                 finish(emit(ss[p], "done", [cached |-> FALSE, cache_age |-> -1]))]
    /\ UNCHANGED <<cacheVars, pmVars, limiterVars, restVars, pureVars>>

\* a mutant: the timeout reaches the catch block of the handler
MetricsTimeoutFails(p) ==
    /\ ss[p].pc = "await_metrics" /\ ss[p].metrics = "pending"
    /\ ss' = [ss EXCEPT ![p] = finish(emit(ss[p], "error", "Timeout"))]
    /\ UNCHANGED <<cacheVars, pmVars, limiterVars, restVars, pureVars>>

\* stock: the race is won by the timeout: the placeholders are sent, nothing
\* is cached, done follows
MetricsTimeout(p) ==
    /\ ss[p].pc = "await_metrics" /\ ss[p].metrics = "pending"
    /\ ss' = [ss EXCEPT ![p] =
                 finish(emit(emit(ss[p], "metrics", "N/A"), "done",
                             [cached |-> FALSE, cache_age |-> -1]))]
    /\ UNCHANGED <<cacheVars, pmVars, limiterVars, restVars, pureVars>>

\* await cacheService.set(...) returns: socket.emit('done')
Cached(p) ==
    /\ ss[p].pc = "caching" /\ cs[p].pc = "returned"
    /\ cs' = [cs EXCEPT ![p] = IdleCache]
    /\ ss' = [ss EXCEPT ![p] =
                 IF cs[p].ret = "thrown"
                 THEN finish(emit(ss[p], "error", CacheErrorMsg))
                 ELSE finish(emit(ss[p], "done", [cached |-> FALSE, cache_age |-> -1]))]
    /\ UNCHANGED <<redisUp, now, redis, cacheOps, lastSet, pmVars, limiterVars, restVars, pureVars>>

\* ------------------------------------------------------------ rate limiter
BasicMax == 100
BasicWindowMs == 900000
AiApiMax == 5
AiApiWindowMs == 60000
UploadMax == 5
UploadWindowMs == 300000
\* the totalHits the catch block of increment reports
FailOpenHits == 1

\* REST requests explored in one run of the limiter
MaxRequests == 7
\* the seconds that pass in one step of the clock of the limiter's store, and
\* the time up to which it is explored
WindowStep == 30
MaxWindowTime == 120
\* requests explored in one run of the limiter's store
MaxStoreRequests == 3

Profiles == {"basic", "ai", "upload"}
Identities == {"ip1", "ip2"}
LimiterPrefix == "rate_limit:"

maxOf(profile) ==
    CASE profile = "basic" -> BasicMax
      [] profile = "ai" -> AiApiMax
      [] profile = "upload" -> UploadMax

windowMsOf(profile) ==
    CASE profile = "basic" -> BasicWindowMs
      [] profile = "ai" -> AiApiWindowMs
      [] profile = "upload" -> UploadWindowMs

\* keyGenerator: the ai profile names its keys, the others use req.ip
keyGenerator(profile, ip) ==
    IF profile = "ai" THEN <<"ai-api:", ip, ":anonymous">> ELSE <<ip>>

\* const redisKey = this.prefix + key
redisKeyOf(key) == <<LimiterPrefix>> \o key

LimiterKeys == {redisKeyOf(keyGenerator(pr, ip)) : pr \in Profiles, ip \in Identities}
EmptyLimiter == [k \in LimiterKeys |-> Absent]

\* Math.ceil(windowMs / 1000)
ceilSeconds(windowMs) == (windowMs + MillisPerSecond - 1) \div MillisPerSecond

\* EXPIRE key seconds
RedisExpireIn(db, k, seconds, t) ==
    IF db[k].present THEN [db EXCEPT ![k].expireAt = t + seconds] ELSE db

\* multi().incr(redisKey).expire(redisKey, seconds).exec(): the keyspace after
\* the transaction and the replies [error, reply] of its two commands
pipelineExec(db, k, seconds, t) ==
    LET counted == RedisIncr(db, k)
    IN [db |-> RedisExpireIn(counted, k, seconds, t),
        results |-> << <<None, counted[k].value>>, <<None, 1>> >>]

\* a mutant: the reply of EXPIRE is taken for the count
countOfExpireReply(results) == results[2][2]

\* const count = results[0][1]
countOf(results) == results[1][2]

\* a mutant: the catch block reports the limit as exceeded
incrementCatchBlocks(windowMs) == [totalHits |-> AiApiMax + 1]

\* catch (error) { return { totalHits: 1, resetTime: ... } }
incrementCatch(windowMs) == [totalHits |-> FailOpenHits]

\* new Redis({ ..., lazyConnect: true }): redis.status until a command is sent
InitialStatus == "wait"

\* a mutant: no request is exempt
skipNever(profile, req, status) == FALSE

\* skip: (req, res) => ... of the three profiles
skip(profile, req, status) ==
    IF profile = "ai" THEN req.cacheHit = TRUE \/ status # "ready"
    ELSE status # "ready"

\* ------------------------------------------------------------ REST requests
\* what the REST requests carry: <<>> is a request without the field
RestQueries == { <<>>, <<"q">> }
RestStockNames == { <<>>, <<"x">> }

SearchErrorMsg == "Search failed"

IdleRest ==
    [pc |-> "idle", route |-> None, profile |-> None, ip |-> None,
     cacheHit |-> FALSE, query |-> <<>>, subject |-> <<>>, horizon |-> <<>>,
     key |-> NoKey, counted |-> FALSE, degraded |-> "no", totalHits |-> 0,
     status |-> 0, error |-> None, cached |-> FALSE, path |-> None,
     docs |-> <<>>, sorted |-> <<>>, text |-> <<>>, genFailed |-> FALSE,
     called |-> {}]

\* res.status(code).json(...): the handler is done, its locals are gone
reply(frame, code, error) ==
    [IdleRest EXCEPT !.pc = "end", !.route = frame.route, !.profile = frame.profile,
                     !.ip = frame.ip, !.counted = frame.counted,
                     !.degraded = frame.degraded,
                     !.status = code, !.error = error, !.cached = frame.cached,
                     !.path = frame.path, !.genFailed = frame.genFailed,
                     !.called = frame.called]

\* String.prototype.includes
includes(str, sub) ==
    \E i \in 1 .. Len(str) - Len(sub) + 1 : SubSeq(str, i, i + Len(sub) - 1) = sub

\* the recommendation /stock-analysis reads off the lower-cased analysis
recommendationOf(text) ==
    LET responseText == toLowerCase(text)
    IN IF includes(responseText, <<"b", "u", "y">>)
          /\ ~includes(responseText, <<"d", "o", "n", "'", "t", " ", "b", "u", "y">>)
       THEN "Buy"
       ELSE IF includes(responseText, <<"h", "o", "l", "d">>) THEN "Hold"
       ELSE IF includes(responseText, <<"s", "e", "l", "l">>)
               /\ ~includes(responseText, <<"d", "o", "n", "'", "t", " ", "s", "e", "l", "l">>)
       THEN "Sell"
       ELSE "Neutral"

\* the results the REST handlers cache and send
restChatResult(frame, response) ==
    [status |-> "success", query |-> frame.query,
     sources |-> slice(frame.sorted, 0, SourcesShown),
     response |-> response.text, provider |-> response.provider]

restStockResult(frame, metrics) ==
    [status |-> "success", stock_name |-> frame.subject,
     time_horizon |-> frame.horizon,
     sources |-> slice(frame.sorted, 0, SourcesShown), metrics |-> metrics,
     recommendation |-> recommendationOf(frame.text), analysis |-> frame.text]

\* next(): the route handler from its entry to its first await.  The route
\* "next" is a profile followed by a handler that only answers.
EnterHandler(frame) ==
    CASE frame.route = "/chat" ->
            IF frame.query = <<>>
            THEN [req |-> reply(frame, 400, "Query is required"), cache |-> IdleCache]
            ELSE LET key == generateKey(frame.query, <<>>, <<>>)
                 IN [req |-> [frame EXCEPT !.pc = "cache_check", !.key = key,
                                           !.called = @ \cup {"cache"}],
                     cache |-> EnterGet(key)]
      [] frame.route = "/stock-analysis" ->
            IF frame.subject = <<>>
            THEN [req |-> reply(frame, 400, "Stock name is required"),
                  cache |-> IdleCache]
            ELSE LET key == generateKey(stockCacheQuery(frame.subject, frame.horizon),
                                        <<>>, <<>>)
                 IN [req |-> [frame EXCEPT !.pc = "cache_check", !.key = key,
                                           !.called = @ \cup {"cache"}],
                     cache |-> EnterGet(key)]
      [] OTHER -> [req |-> reply(frame, 200, None), cache |-> IdleCache]

\* a mutant: the middleware counts every request
EnterLimiterCounting(frame, status) ==
    [req |-> [frame EXCEPT !.pc = "limiting"], cache |-> IdleCache]

\* the middleware of a profile from its entry to its first await: skip, or
\* store.increment up to the exec of its pipeline
EnterLimiter(frame, status) ==
    IF skip(frame.profile, frame, status)
    THEN EnterHandler([frame EXCEPT !.degraded =
                                       IF status # "ready" THEN "not ready" ELSE "no"])
    ELSE [req |-> [frame EXCEPT !.pc = "limiting"], cache |-> IdleCache]

\* who asks which profile
LimiterClients ==
    { <<"ai", "ip1">>, <<"ai", "ip2">>, <<"basic", "ip1">>, <<"upload", "ip1">> }

\* a request of one of the clients reaches its profile, nothing but next()
\* behind it
RequestFrom(p, clients, most) ==
    /\ rq[p].pc \in {"idle", "end"} /\ requests < most
    /\ \E client \in clients :
          LET entered == EnterLimiter([IdleRest EXCEPT !.route = "next",
                                                       !.profile = client[1],
                                                       !.ip = client[2]],
                                      rlStatus)
          IN rq' = [rq EXCEPT ![p] = entered.req]
    /\ requests' = requests + 1
    /\ UNCHANGED <<rl, rlStatus, rlLog, rlFirst, pmVars, cacheVars, sessVars, pureVars>>

LimiterRequest(p) == RequestFrom(p, LimiterClients, MaxRequests)

\* the handlers are alike: the first request of a run arrives at p1
RestMayReceive(p) ==
    /\ rq[p].pc = "idle" /\ ss[p].pc = "idle"
    /\ p = "p1" \/ rq["p1"].pc # "idle" \/ ss["p1"].pc # "idle"

\* POST /chat: aiApiRateLimit, then the handler
RestChatReceive(p) ==
    /\ RestMayReceive(p)
    /\ \E query \in RestQueries, ip \in Identities :
          LET entered == EnterLimiter([IdleRest EXCEPT !.route = "/chat",
                                                       !.profile = "ai", !.ip = ip,
                                                       !.query = query],
                                      rlStatus)
          IN /\ rq' = [rq EXCEPT ![p] = entered.req]
             /\ cs' = [cs EXCEPT ![p] = entered.cache]
    /\ requests' = requests + 1
    /\ UNCHANGED <<rl, rlStatus, rlLog, rlFirst, redisUp, now, redis, cacheOps, lastSet,
                   pmVars, sessVars, pureVars>>

\* POST /stock-analysis: aiApiRateLimit, then the handler
RestStockReceive(p) ==
    /\ RestMayReceive(p)
    /\ \E stock_name \in RestStockNames, given \in Horizons, ip \in Identities :
          LET time_horizon == IF given = NoHorizon THEN DefaultHorizon ELSE given
              entered == EnterLimiter([IdleRest EXCEPT !.route = "/stock-analysis",
                                                       !.profile = "ai", !.ip = ip,
                                                       !.subject = stock_name,
                                                       !.horizon = time_horizon],
                                      rlStatus)
          IN /\ rq' = [rq EXCEPT ![p] = entered.req]
             /\ cs' = [cs EXCEPT ![p] = entered.cache]
    /\ requests' = requests + 1
    /\ UNCHANGED <<rl, rlStatus, rlLog, rlFirst, redisUp, now, redis, cacheOps, lastSet,
                   pmVars, sessVars, pureVars>>

\* increment: await pipeline.exec() resolves or rejects; the middleware
\* answers 429 when totalHits exceeds max and calls next() otherwise
LimiterExec(p) ==
    /\ rq[p].pc = "limiting"
    /\ LET k == redisKeyOf(keyGenerator(rq[p].profile, rq[p].ip))
           exec == pipelineExec(rl, k, ceilSeconds(windowMsOf(rq[p].profile)), now)
           totalHits == IF rlStatus = "ready" THEN countOf(exec.results)
                        ELSE incrementCatch(windowMsOf(rq[p].profile)).totalHits
           frame == [rq[p] EXCEPT !.totalHits = totalHits,
                                  !.counted = (rlStatus = "ready"),
                                  !.degraded = IF rlStatus = "ready" THEN "no"
                                               ELSE "command failed"]
           entered == EnterHandler(frame)
       IN /\ IF rlStatus = "ready"
             THEN /\ rl' = exec.db
                  /\ rlLog' = [rlLog EXCEPT ![k] = Append(@, totalHits)]
                  /\ rlFirst' = [rlFirst EXCEPT ![k] = IF @ = NoTime THEN now ELSE @]
             ELSE UNCHANGED <<rl, rlLog, rlFirst>>
          /\ IF totalHits > maxOf(rq[p].profile)
             THEN /\ rq' = [rq EXCEPT ![p] = reply(frame, 429, "rate limit exceeded")]
                  /\ UNCHANGED cs
             ELSE /\ rq' = [rq EXCEPT ![p] = entered.req]
                  /\ cs' = [cs EXCEPT ![p] =
                               IF entered.req.pc = "cache_check" THEN entered.cache
                               ELSE cs[p]]
    /\ UNCHANGED <<rlStatus, requests, redisUp, now, redis, cacheOps, lastSet,
                   pmVars, sessVars, pureVars>>

\* the client exported by the limiter module is sent a command by another
\* service: a client created with lazyConnect connects on its first command
ClientCommand ==
    /\ rlStatus = "wait"
    /\ rlStatus' = "connecting"
    /\ UNCHANGED <<rl, rlLog, rlFirst, requests, pmVars, cacheVars, sessVars, restVars, pureVars>>

\* the connection of the limiter is established or lost, or the server
\* starts or stops rejecting commands on an established connection
LimiterStoreChanges ==
    /\ rlStatus # "wait"
    /\ \E status \in {"ready", "failing", "connecting"} :
          status # rlStatus /\ rlStatus' = status
    /\ UNCHANGED <<rl, rlLog, rlFirst, requests, pmVars, cacheVars, sessVars, restVars, pureVars>>

\* DECR key: a key that does not exist counts as 0 and is created
RedisDecr(db, k) ==
    IF db[k].present
    THEN [db EXCEPT ![k].value = @ - 1]
    ELSE [db EXCEPT ![k] = [present |-> TRUE, value |-> -1, expireAt |-> NoExpiry]]

\* decrement: await this.client.decr(redisKey), an error is logged
decrement(db, k, status) == IF status = "ready" THEN RedisDecr(db, k) ELSE db

\* resetKey: await this.client.del(redisKey), an error is logged
resetKey(db, k, status) == IF status = "ready" THEN RedisDel(db, k) ELSE db

\* the client of the strict profile
StoreClients == { <<"ai", "ip1">> }

StoreRequest(p) == RequestFrom(p, StoreClients, MaxStoreRequests)

\* the middleware takes back the hit of a request that is over
Decrement(p) ==
    /\ rq[p].pc = "end" /\ rq[p].counted
    /\ LET k == redisKeyOf(keyGenerator(rq[p].profile, rq[p].ip))
       IN rl' = decrement(rl, k, rlStatus)
    /\ rq' = [rq EXCEPT ![p].counted = FALSE]
    /\ UNCHANGED <<rlStatus, rlLog, rlFirst, requests, pmVars, cacheVars, sessVars,
                   pureVars>>

\* the counter of one identity is reset
ResetKey ==
    /\ \E k \in LimiterKeys :
          /\ rl[k].present
          /\ rl' = resetKey(rl, k, rlStatus)
          /\ rlLog' = [rlLog EXCEPT ![k] = IF rl'[k].present THEN @ ELSE <<>>]
          /\ rlFirst' = [rlFirst EXCEPT ![k] = IF rl'[k].present THEN @ ELSE NoTime]
    /\ UNCHANGED <<rlStatus, requests, pmVars, cacheVars, sessVars, restVars, pureVars>>

\* part of a window of the strict profile passes; Redis drops the keys that
\* expire
Elapse ==
    /\ now + WindowStep <= MaxWindowTime
    /\ now' = now + WindowStep
    /\ redis' = RedisExpire(redis, now')
    /\ rl' = RedisExpire(rl, now')
    /\ rlLog' = [k \in DOMAIN rlLog |-> IF rl'[k].present THEN rlLog[k] ELSE <<>>]
    /\ rlFirst' = [k \in DOMAIN rlFirst |-> IF rl'[k].present THEN rlFirst[k] ELSE NoTime]
    /\ UNCHANGED <<redisUp, cs, cacheOps, lastSet, rlStatus, requests, pmVars,
                   sessVars, restVars, pureVars>>

\* const cached = await cacheService.get(cacheKey); if (cached) answer it
RestCacheChecked(p) ==
    /\ rq[p].pc = "cache_check" /\ cs[p].pc = "returned"
    /\ cs' = [cs EXCEPT ![p] = IdleCache]
    /\ rq' = [rq EXCEPT ![p] =
                 IF cs[p].ret = "thrown"
                 THEN reply(rq[p], 500, CacheErrorMsg)
                 ELSE IF cs[p].ret = "hit"
                 THEN reply([rq[p] EXCEPT !.cached = TRUE, !.path = "hit"], 200, None)
                 ELSE [rq[p] EXCEPT !.pc = "searching", !.path = "miss",
                                    !.called = @ \cup {"search"}]]
    /\ UNCHANGED <<redisUp, now, redis, cacheOps, lastSet, pmVars, sessVars,
                   limiterVars, pureVars>>

\* await searchService.webSearch(...) resolves; sortSources is awaited
RestSearchReturns(p) ==
    /\ rq[p].pc = "searching"
    /\ \E docs \in SearchResults :
          rq' = [rq EXCEPT ![p].pc = "ranking", ![p].docs = docs,
                           ![p].called = @ \cup {"ranking"}]
    /\ UNCHANGED <<pmVars, cacheVars, sessVars, limiterVars, pureVars>>

\* webSearch rejects: the catch block of the handler answers 500
RestSearchFails(p) ==
    /\ rq[p].pc = "searching"
    /\ rq' = [rq EXCEPT ![p] = reply(rq[p], 500, SearchErrorMsg)]
    /\ UNCHANGED <<pmVars, cacheVars, sessVars, limiterVars, pureVars>>

\* /chat: sortSources resolves, aiProviders.makeRequest is awaited
RestChatRanked(p) ==
    /\ rq[p].pc = "ranking" /\ rq[p].route = "/chat"
    /\ \E sorted \in Rankings(searchQueryOf(rq[p]), rq[p].docs) :
          rq' = [rq EXCEPT ![p].pc = "gen_request", ![p].sorted = sorted,
                           ![p].called = @ \cup {"provider"}]
    /\ mr' = [mr EXCEPT ![p] = EnterMakeRequest(IdleRequest, providers, None)]
    /\ invocations' = invocations + 1
    /\ UNCHANGED <<providers, cacheVars, sessVars, limiterVars, pureVars>>

\* /chat: makeRequest resolved: the result is built and cached
RestChatProviderReturns(p) ==
    /\ rq[p].pc = "gen_request" /\ mr[p].pc = "returned"
    /\ rq' = [rq EXCEPT ![p].pc = "caching", ![p].text = AnswerText]
    /\ cs' = [cs EXCEPT ![p] =
                 EnterSet(rq[p].key,
                          restChatResult(rq[p], [text |-> AnswerText,
                                                 provider |-> mr[p].response.provider]),
                          ChatTTL)]
    /\ mr' = [mr EXCEPT ![p] = IdleRequest]
    /\ UNCHANGED <<providers, invocations, redisUp, now, redis, cacheOps, lastSet,
                   sessVars, limiterVars, pureVars>>

\* /chat: makeRequest rejected: the catch block of the handler answers 500
RestChatProviderThrows(p) ==
    /\ rq[p].pc = "gen_request" /\ mr[p].pc = "thrown"
    /\ rq' = [rq EXCEPT ![p] = reply(rq[p], 500, mr[p].error)]
    /\ mr' = [mr EXCEPT ![p] = IdleRequest]
    /\ UNCHANGED <<providers, invocations, cacheVars, sessVars, limiterVars, pureVars>>

\* /stock-analysis: sortSources resolves, the fragments of
\* analyzeStockGenerateResponse are collected
RestStockRanked(p) ==
    /\ rq[p].pc = "ranking" /\ rq[p].route = "/stock-analysis"
    /\ \E sorted \in Rankings(searchQueryOf(rq[p]), rq[p].docs) :
          rq' = [rq EXCEPT ![p].pc = "generating", ![p].sorted = sorted,
                           ![p].called = @ \cup {"provider"}]
    /\ UNCHANGED <<pmVars, cacheVars, sessVars, limiterVars, pureVars>>

\* /stock-analysis: the generator returns, after its fragments or after the
\* error text of its catch block; extractKeyMetrics is awaited
RestStockGenerated(p) ==
    /\ rq[p].pc = "generating"
    /\ \/ \E chunk \in StreamChunks :
             rq' = [rq EXCEPT ![p].pc = "await_metrics", ![p].text = chunk]
       \/ rq' = [rq EXCEPT ![p].pc = "await_metrics", ![p].text = StockErrorText,
                           ![p].genFailed = TRUE]
    /\ UNCHANGED <<pmVars, cacheVars, sessVars, limiterVars, pureVars>>

\* /stock-analysis: extractKeyMetrics resolves: the result is built and cached
RestMetricsResolve(p) ==
    /\ rq[p].pc = "await_metrics"
    /\ rq' = [rq EXCEPT ![p].pc = "caching"]
    /\ cs' = [cs EXCEPT ![p] =
                 EnterSet(rq[p].key, restStockResult(rq[p], "extracted"), StockTTL)]
    /\ UNCHANGED <<redisUp, now, redis, cacheOps, lastSet, pmVars, sessVars,
                   limiterVars, pureVars>>

\* await cacheService.set(...) returns: res.json(result)
RestCached(p) ==
    /\ rq[p].pc = "caching" /\ cs[p].pc = "returned"
    /\ cs' = [cs EXCEPT ![p] = IdleCache]
    /\ rq' = [rq EXCEPT ![p] =
                 IF cs[p].ret = "thrown" THEN reply(rq[p], 500, CacheErrorMsg)
                 ELSE reply(rq[p], 200, None)]
    /\ UNCHANGED <<redisUp, now, redis, cacheOps, lastSet, pmVars, sessVars,
                   limiterVars, pureVars>>

\* --------------------------------------------------------- ranking calls
IdleRank ==
    [pc |-> "idle", query |-> <<>>, ids |-> <<>>, modelLoaded |-> FALSE,
     queryEmbedFails |-> FALSE, path |-> None, threw |-> FALSE, docs |-> <<>>]

\* a caller awaits sortSources(query, searchResults)
SortSources ==
    /\ rk.pc = "args"
    /\ LET sorted == sortSources(rk.query, [i \in DOMAIN rk.ids |-> Document(rk.ids[i])],
                                 rk.modelLoaded, rk.queryEmbedFails)
       IN rk' = [rk EXCEPT !.pc = "returned", !.path = sorted.path,
                           !.threw = sorted.threw, !.docs = sorted.docs]
    /\ UNCHANGED <<pmVars, cacheVars, sessVars, limiterVars, restVars, kq>>

NextRanking == SortSources

\* ------------------------------------------------------- key derivation
\* the longest query text explored
MaxQueryLen == 3

QueryChars == {"q", "Q", " "}
QueryTexts == UNION {[1 .. n -> QueryChars] : n \in 0 .. MaxQueryLen}
KeySymbols == { <<>>, <<"x">> }
KeySources == { <<>>, <<2, 1>> }

IdleKeys ==
    [pc |-> "idle", first |-> <<>>, second |-> <<>>, symbol |-> <<>>,
     sources |-> <<>>, key1 |-> NoKey, key2 |-> NoKey]

\* a caller derives the key of the first query
KeyFirst ==
    /\ kq.pc \in {"args", "second"}
    /\ kq' = [kq EXCEPT !.pc = IF kq.pc = "args" THEN "first" ELSE "both",
                        !.key1 = generateKey(kq.first, kq.symbol, kq.sources)]
    /\ UNCHANGED <<pmVars, cacheVars, sessVars, limiterVars, restVars, rk>>

\* a caller derives the key of the second query
KeySecond ==
    /\ kq.pc \in {"args", "first"}
    /\ kq' = [kq EXCEPT !.pc = IF kq.pc = "args" THEN "second" ELSE "both",
                        !.key2 = generateKey(kq.second, kq.symbol, kq.sources)]
    /\ UNCHANGED <<pmVars, cacheVars, sessVars, limiterVars, restVars, rk>>

NextKeys == KeyFirst \/ KeySecond

\* ------------------------------------------------------- specifications
\* the provider manager under its callers: any credentials, any usage start
InitProviders ==
    /\ \E keys \in [ProviderSet -> BOOLEAN], usage \in UsageStarts :
            providers = ProviderTable(keys, usage)
    /\ mr = [p \in Procs |-> IdleRequest]
    /\ invocations = 0
    /\ redisUp = TRUE
    /\ now = 0
    /\ redis = EmptyRedis
    /\ cs = [p \in Procs |-> IdleCache]
    /\ cacheOps = 0
    /\ lastSet = [k \in CacheKeys |-> NoLastSet]
    /\ ss = [p \in Procs |-> IdleSession]
    /\ rl = EmptyLimiter
    /\ rlStatus = InitialStatus
    /\ rlLog = [k \in LimiterKeys |-> <<>>]
    /\ rlFirst = [k \in LimiterKeys |-> NoTime]
    /\ requests = 0
    /\ rq = [p \in Procs |-> IdleRest]
    /\ rk = IdleRank
    /\ kq = IdleKeys

SpecProviders == InitProviders /\ [][NextProviders]_vars

NextCache ==
    \/ \E p \in Procs : ClientGet(p)
    \/ \E p \in Procs : ClientSet(p)
    \/ \E p \in Procs : ClientDelete(p)
    \/ \E p \in Procs : ClientTake(p)
    \/ \E p \in Procs : GetRead(p)
    \/ \E p \in Procs : GetIncr(p)
    \/ \E p \in Procs : SetValue(p)
    \/ \E p \in Procs : SetCount(p)
    \/ \E p \in Procs : DelValue(p)
    \/ \E p \in Procs : DelCount(p)
    \/ Tick
    \/ RedisFails
    \/ RedisRecovers

\* the cache service under its callers, Redis empty and connected
InitCache ==
    /\ providers = FreshProviders
    /\ mr = [p \in Procs |-> IdleRequest]
    /\ invocations = 0
    /\ redisUp = TRUE
    /\ now = 0
    /\ redis = EmptyRedis
    /\ cs = [p \in Procs |-> IdleCache]
    /\ cacheOps = 0
    /\ lastSet = [k \in CacheKeys |-> NoLastSet]
    /\ ss = [p \in Procs |-> IdleSession]
    /\ rl = EmptyLimiter
    /\ rlStatus = InitialStatus
    /\ rlLog = [k \in LimiterKeys |-> <<>>]
    /\ rlFirst = [k \in LimiterKeys |-> NoTime]
    /\ requests = 0
    /\ rq = [p \in Procs |-> IdleRest]
    /\ rk = IdleRank
    /\ kq = IdleKeys

SpecCache == InitCache /\ [][NextCache]_vars

\* the server with its WebSocket clients: Redis empty, reachable or not, the
\* gemini credential configured, the openai credential configured or not
InitStream ==
    /\ \E openaiKey \in BOOLEAN :
          providers = ProviderTable([n \in ProviderSet |-> n = "gemini" \/ openaiKey],
                                    [n \in ProviderSet |-> 0])
    /\ mr = [p \in Procs |-> IdleRequest]
    /\ invocations = 0
    /\ redisUp \in BOOLEAN
    /\ now = 0
    /\ redis = EmptyRedis
    /\ cs = [p \in Procs |-> IdleCache]
    /\ cacheOps = 0
    /\ lastSet = [k \in CacheKeys |-> NoLastSet]
    /\ ss = [p \in Procs |-> IdleSession]
    /\ rl = EmptyLimiter
    /\ rlStatus = InitialStatus
    /\ rlLog = [k \in LimiterKeys |-> <<>>]
    /\ rlFirst = [k \in LimiterKeys |-> NoTime]
    /\ requests = 0
    /\ rq = [p \in Procs |-> IdleRest]
    /\ rk = IdleRank
    /\ kq = IdleKeys

NextStream ==
    \/ \E p \in Procs : ChatReceive(p)
    \/ \E p \in Procs : StockReceive(p)
    \/ \E p \in Procs : CacheChecked(p)
    \/ \E p \in Procs : ReplayNext(p)
    \/ \E p \in Procs : SearchReturns(p)
    \/ \E p \in Procs : SearchFails(p)
    \/ \E p \in Procs : ChatRanked(p)
    \/ \E p \in Procs : ChatProviderReturns(p)
    \/ \E p \in Procs : ChatProviderThrows(p)
    \/ \E p \in Procs : StockRanked(p)
    \/ \E p \in Procs : StockAnalysisReturns(p)
    \/ \E p \in Procs : StockRecommendationReturns(p)
    \/ \E p \in Procs : GenerationFails(p)
    \/ \E p \in Procs : StreamChunk(p)
    \/ \E p \in Procs : GenerationEnds(p)
    \/ \E p \in Procs : MetricsResolve(p)
    \/ \E p \in Procs : MetricsReady(p)
    \/ \E p \in Procs : MetricsTimeout(p)
    \/ \E p \in Procs : Cached(p)
    \/ \E p \in Procs : CallSucceeds(p)
    \/ \E p \in Procs : CallFails(p)
    \/ \E p \in Procs : GetRead(p)
    \/ \E p \in Procs : GetIncr(p)
    \/ \E p \in Procs : SetValue(p)
    \/ \E p \in Procs : SetCount(p)
    \/ Tick

SpecStream == InitStream /\ [][NextStream]_vars

\* generateKey under its callers: any two queries, one symbol, one source list
InitKeys ==
    /\ providers = FreshProviders
    /\ mr = [p \in Procs |-> IdleRequest]
    /\ invocations = 0
    /\ redisUp = TRUE
    /\ now = 0
    /\ redis = EmptyRedis
    /\ cs = [p \in Procs |-> IdleCache]
    /\ cacheOps = 0
    /\ lastSet = [k \in CacheKeys |-> NoLastSet]
    /\ ss = [p \in Procs |-> IdleSession]
    /\ rl = EmptyLimiter
    /\ rlStatus = InitialStatus
    /\ rlLog = [k \in LimiterKeys |-> <<>>]
    /\ rlFirst = [k \in LimiterKeys |-> NoTime]
    /\ requests = 0
    /\ rq = [p \in Procs |-> IdleRest]
    /\ rk = IdleRank
    /\ \E a \in QueryTexts, b \in QueryTexts, symbol \in KeySymbols,
          sources \in KeySources :
            kq = [IdleKeys EXCEPT !.pc = "args", !.first = a, !.second = b,
                                  !.symbol = symbol, !.sources = sources]

SpecKeys == InitKeys /\ [][NextKeys]_vars

\* the limiter module under the requests of its three profiles and under the
\* other users of the Redis client it exports
InitLimiter ==
    /\ providers = FreshProviders
    /\ mr = [p \in Procs |-> IdleRequest]
    /\ invocations = 0
    /\ redisUp = TRUE
    /\ now = 0
    /\ redis = EmptyRedis
    /\ cs = [p \in Procs |-> IdleCache]
    /\ cacheOps = 0
    /\ lastSet = [k \in CacheKeys |-> NoLastSet]
    /\ ss = [p \in Procs |-> IdleSession]
    /\ rl = EmptyLimiter
    /\ rlStatus = InitialStatus
    /\ rlLog = [k \in LimiterKeys |-> <<>>]
    /\ rlFirst = [k \in LimiterKeys |-> NoTime]
    /\ requests = 0
    /\ rq = [p \in Procs |-> IdleRest]
    /\ rk = IdleRank
    /\ kq = IdleKeys

NextLimiter ==
    \/ \E p \in Procs : LimiterRequest(p)
    \/ \E p \in Procs : LimiterExec(p)
    \/ ClientCommand
    \/ LimiterStoreChanges
    \/ Tick

SpecLimiter == InitLimiter /\ [][NextLimiter]_vars

\* server.js with its WebSocket and REST clients: Redis empty and reachable,
\* the gemini credential configured, the openai credential not
InitServer ==
    /\ providers = ProviderTable([n \in ProviderSet |-> n = "gemini"],
                                 [n \in ProviderSet |-> 0])
    /\ mr = [p \in Procs |-> IdleRequest]
    /\ invocations = 0
    /\ redisUp = TRUE
    /\ now = 0
    /\ redis = EmptyRedis
    /\ cs = [p \in Procs |-> IdleCache]
    /\ cacheOps = 0
    /\ lastSet = [k \in CacheKeys |-> NoLastSet]
    /\ ss = [p \in Procs |-> IdleSession]
    /\ rl = EmptyLimiter
    /\ rlStatus = InitialStatus
    /\ rlLog = [k \in LimiterKeys |-> <<>>]
    /\ rlFirst = [k \in LimiterKeys |-> NoTime]
    /\ requests = 0
    /\ rq = [p \in Procs |-> IdleRest]
    /\ rk = IdleRank
    /\ kq = IdleKeys

NextServer ==
    \/ \E p \in Procs : ChatReceive(p)
    \/ \E p \in Procs : StockReceive(p)
    \/ \E p \in Procs : CacheChecked(p)
    \/ \E p \in Procs : ReplayNext(p)
    \/ \E p \in Procs : SearchReturns(p)
    \/ \E p \in Procs : SearchFails(p)
    \/ \E p \in Procs : ChatRanked(p)
    \/ \E p \in Procs : ChatProviderReturns(p)
    \/ \E p \in Procs : ChatProviderThrows(p)
    \/ \E p \in Procs : StockRanked(p)
    \/ \E p \in Procs : StockAnalysisReturns(p)
    \/ \E p \in Procs : StockRecommendationReturns(p)
    \/ \E p \in Procs : GenerationFails(p)
    \/ \E p \in Procs : StreamChunk(p)
    \/ \E p \in Procs : GenerationEnds(p)
    \/ \E p \in Procs : MetricsResolve(p)
    \/ \E p \in Procs : MetricsReady(p)
    \/ \E p \in Procs : MetricsTimeout(p)
    \/ \E p \in Procs : Cached(p)
    \/ \E p \in Procs : RestChatReceive(p)
    \/ \E p \in Procs : RestStockReceive(p)
    \/ \E p \in Procs : RestCacheChecked(p)
    \/ \E p \in Procs : RestSearchReturns(p)
    \/ \E p \in Procs : RestSearchFails(p)
    \/ \E p \in Procs : RestChatRanked(p)
    \/ \E p \in Procs : RestChatProviderReturns(p)
    \/ \E p \in Procs : RestChatProviderThrows(p)
    \/ \E p \in Procs : RestStockRanked(p)
    \/ \E p \in Procs : RestStockGenerated(p)
    \/ \E p \in Procs : RestMetricsResolve(p)
    \/ \E p \in Procs : RestCached(p)
    \/ \E p \in Procs : CallSucceeds(p)
    \/ \E p \in Procs : CallFails(p)
    \/ \E p \in Procs : GetRead(p)
    \/ \E p \in Procs : GetIncr(p)
    \/ \E p \in Procs : SetValue(p)
    \/ \E p \in Procs : SetCount(p)

SpecServer == InitServer /\ [][NextServer]_vars

\* server.js with the Redis server unreachable for the whole run
InitOutage ==
    /\ \E openaiKey \in BOOLEAN :
          providers = ProviderTable([n \in ProviderSet |-> n = "gemini" \/ openaiKey],
                                    [n \in ProviderSet |-> 0])
    /\ mr = [p \in Procs |-> IdleRequest]
    /\ invocations = 0
    /\ redisUp = FALSE
    /\ now = 0
    /\ redis = EmptyRedis
    /\ cs = [p \in Procs |-> IdleCache]
    /\ cacheOps = 0
    /\ lastSet = [k \in CacheKeys |-> NoLastSet]
    /\ ss = [p \in Procs |-> IdleSession]
    /\ rl = EmptyLimiter
    /\ rlStatus = InitialStatus
    /\ rlLog = [k \in LimiterKeys |-> <<>>]
    /\ rlFirst = [k \in LimiterKeys |-> NoTime]
    /\ requests = 0
    /\ rq = [p \in Procs |-> IdleRest]
    /\ rk = IdleRank
    /\ kq = IdleKeys

NextOutage ==
    \/ \E p \in Procs : ChatReceive(p)
    \/ \E p \in Procs : StockReceive(p)
    \/ \E p \in Procs : CacheChecked(p)
    \/ \E p \in Procs : SearchReturns(p)
    \/ \E p \in Procs : SearchFails(p)
    \/ \E p \in Procs : ChatRanked(p)
    \/ \E p \in Procs : ChatProviderReturns(p)
    \/ \E p \in Procs : ChatProviderThrows(p)
    \/ \E p \in Procs : StockRanked(p)
    \/ \E p \in Procs : StockAnalysisReturns(p)
    \/ \E p \in Procs : StockRecommendationReturns(p)
    \/ \E p \in Procs : GenerationFails(p)
    \/ \E p \in Procs : StreamChunk(p)
    \/ \E p \in Procs : GenerationEnds(p)
    \/ \E p \in Procs : MetricsResolve(p)
    \/ \E p \in Procs : MetricsReady(p)
    \/ \E p \in Procs : MetricsTimeout(p)
    \/ \E p \in Procs : Cached(p)
    \/ \E p \in Procs : RestChatReceive(p)
    \/ \E p \in Procs : RestStockReceive(p)
    \/ \E p \in Procs : RestCacheChecked(p)
    \/ \E p \in Procs : RestSearchReturns(p)
    \/ \E p \in Procs : RestSearchFails(p)
    \/ \E p \in Procs : RestChatRanked(p)
    \/ \E p \in Procs : RestChatProviderReturns(p)
    \/ \E p \in Procs : RestChatProviderThrows(p)
    \/ \E p \in Procs : RestStockRanked(p)
    \/ \E p \in Procs : RestStockGenerated(p)
    \/ \E p \in Procs : RestMetricsResolve(p)
    \/ \E p \in Procs : RestCached(p)
    \/ \E p \in Procs : CallSucceeds(p)
    \/ \E p \in Procs : CallFails(p)
    \/ \E p \in Procs : GetRead(p)
    \/ \E p \in Procs : SetValue(p)
    \/ Tick

SpecOutage == InitOutage /\ [][NextOutage]_vars

\* sortSources under its callers: any query and list of search results, the
\* model loaded or not, the embedding of the query available or not
InitRanking ==
    /\ providers = FreshProviders
    /\ mr = [p \in Procs |-> IdleRequest]
    /\ invocations = 0
    /\ redisUp = TRUE
    /\ now = 0
    /\ redis = EmptyRedis
    /\ cs = [p \in Procs |-> IdleCache]
    /\ cacheOps = 0
    /\ lastSet = [k \in CacheKeys |-> NoLastSet]
    /\ ss = [p \in Procs |-> IdleSession]
    /\ rl = EmptyLimiter
    /\ rlStatus = InitialStatus
    /\ rlLog = [k \in LimiterKeys |-> <<>>]
    /\ rlFirst = [k \in LimiterKeys |-> NoTime]
    /\ requests = 0
    /\ rq = [p \in Procs |-> IdleRest]
    /\ \E query \in RankQueries, ids \in DocLists, modelLoaded \in BOOLEAN,
          queryEmbedFails \in BOOLEAN :
            rk = [IdleRank EXCEPT !.pc = "args", !.query = query, !.ids = ids,
                                  !.modelLoaded = modelLoaded,
                                  !.queryEmbedFails = queryEmbedFails]
    /\ kq = IdleKeys

SpecRanking == InitRanking /\ [][NextRanking]_vars

\* the streaming handlers with the search and the ranking of a scenario: what
\* webSearch returns, whether the embedding model loads, whether the
\* embedding of the query is available
SourceLists == { <<3, 9, 4, 1, 5, 2>>, <<1, 2, 4, 5, 6, 7, 8>> }

InitSources ==
    /\ providers = ProviderTable([n \in ProviderSet |-> n = "gemini"],
                                 [n \in ProviderSet |-> 0])
    /\ mr = [p \in Procs |-> IdleRequest]
    /\ invocations = 0
    /\ redisUp = TRUE
    /\ now = 0
    /\ redis = EmptyRedis
    /\ cs = [p \in Procs |-> IdleCache]
    /\ cacheOps = 0
    /\ lastSet = [k \in CacheKeys |-> NoLastSet]
    /\ ss = [p \in Procs |-> IdleSession]
    /\ rl = EmptyLimiter
    /\ rlStatus = InitialStatus
    /\ rlLog = [k \in LimiterKeys |-> <<>>]
    /\ rlFirst = [k \in LimiterKeys |-> NoTime]
    /\ requests = 0
    /\ rq = [p \in Procs |-> IdleRest]
    /\ \E ids \in SourceLists, modelLoaded \in BOOLEAN, queryEmbedFails \in BOOLEAN :
          rk = [IdleRank EXCEPT !.pc = "args", !.ids = ids,
                                !.modelLoaded = modelLoaded,
                                !.queryEmbedFails = queryEmbedFails]
    /\ kq = IdleKeys

NextSources ==
    \/ \E p \in Procs : ChatReceive(p)
    \/ \E p \in Procs : StockReceive(p)
    \/ \E p \in Procs : CacheChecked(p)
    \/ \E p \in Procs : ReplayNext(p)
    \/ \E p \in Procs : SearchReturns(p)
    \/ \E p \in Procs : SearchFails(p)
    \/ \E p \in Procs : ChatRanked(p)
    \/ \E p \in Procs : ChatProviderReturns(p)
    \/ \E p \in Procs : ChatProviderThrows(p)
    \/ \E p \in Procs : StockRanked(p)
    \/ \E p \in Procs : StockAnalysisReturns(p)
    \/ \E p \in Procs : StockRecommendationReturns(p)
    \/ \E p \in Procs : GenerationFails(p)
    \/ \E p \in Procs : StreamChunk(p)
    \/ \E p \in Procs : GenerationEnds(p)
    \/ \E p \in Procs : MetricsResolve(p)
    \/ \E p \in Procs : MetricsReady(p)
    \/ \E p \in Procs : MetricsTimeout(p)
    \/ \E p \in Procs : Cached(p)
    \/ \E p \in Procs : CallSucceeds(p)
    \/ \E p \in Procs : CallFails(p)
    \/ \E p \in Procs : GetRead(p)
    \/ \E p \in Procs : GetIncr(p)
    \/ \E p \in Procs : SetValue(p)
    \/ \E p \in Procs : SetCount(p)

SpecSources == InitSources /\ [][NextSources]_vars

\* server.js with the client of the limiter in use by another service: the
\* chat operations of both transports while redis.status changes
InitGate ==
    /\ providers = ProviderTable([n \in ProviderSet |-> n = "gemini"],
                                 [n \in ProviderSet |-> 0])
    /\ mr = [p \in Procs |-> IdleRequest]
    /\ invocations = 0
    /\ redisUp = TRUE
    /\ now = 0
    /\ redis = EmptyRedis
    /\ cs = [p \in Procs |-> IdleCache]
    /\ cacheOps = 0
    /\ lastSet = [k \in CacheKeys |-> NoLastSet]
    /\ ss = [p \in Procs |-> IdleSession]
    /\ rl = EmptyLimiter
    /\ rlStatus = InitialStatus
    /\ rlLog = [k \in LimiterKeys |-> <<>>]
    /\ rlFirst = [k \in LimiterKeys |-> NoTime]
    /\ requests = 0
    /\ rq = [p \in Procs |-> IdleRest]
    /\ rk = IdleRank
    /\ kq = IdleKeys

NextGate ==
    \/ ClientCommand
    \/ LimiterStoreChanges
    \/ \E p \in Procs : LimiterExec(p)
    \/ \E p \in Procs : ChatReceive(p)
    \/ \E p \in Procs : CacheChecked(p)
    \/ \E p \in Procs : ReplayNext(p)
    \/ \E p \in Procs : SearchReturns(p)
    \/ \E p \in Procs : SearchFails(p)
    \/ \E p \in Procs : ChatRanked(p)
    \/ \E p \in Procs : ChatProviderReturns(p)
    \/ \E p \in Procs : ChatProviderThrows(p)
    \/ \E p \in Procs : GenerationFails(p)
    \/ \E p \in Procs : StreamChunk(p)
    \/ \E p \in Procs : GenerationEnds(p)
    \/ \E p \in Procs : Cached(p)
    \/ \E p \in Procs : RestChatReceive(p)
    \/ \E p \in Procs : RestCacheChecked(p)
    \/ \E p \in Procs : RestSearchReturns(p)
    \/ \E p \in Procs : RestSearchFails(p)
    \/ \E p \in Procs : RestChatRanked(p)
    \/ \E p \in Procs : RestChatProviderReturns(p)
    \/ \E p \in Procs : RestChatProviderThrows(p)
    \/ \E p \in Procs : RestCached(p)
    \/ \E p \in Procs : CallSucceeds(p)
    \/ \E p \in Procs : CallFails(p)
    \/ \E p \in Procs : GetRead(p)
    \/ \E p \in Procs : GetIncr(p)
    \/ \E p \in Procs : SetValue(p)
    \/ \E p \in Procs : SetCount(p)

SpecGate == InitGate /\ [][NextGate]_vars

\* the store of the limiter under the strict profile, its client in use by
\* another service: hits, hits taken back, resets and expiry
InitStore ==
    /\ providers = FreshProviders
    /\ mr = [p \in Procs |-> IdleRequest]
    /\ invocations = 0
    /\ redisUp = TRUE
    /\ now = 0
    /\ redis = EmptyRedis
    /\ cs = [p \in Procs |-> IdleCache]
    /\ cacheOps = 0
    /\ lastSet = [k \in CacheKeys |-> NoLastSet]
    /\ ss = [p \in Procs |-> IdleSession]
    /\ rl = EmptyLimiter
    /\ rlStatus = InitialStatus
    /\ rlLog = [k \in LimiterKeys |-> <<>>]
    /\ rlFirst = [k \in LimiterKeys |-> NoTime]
    /\ requests = 0
    /\ rq = [p \in Procs |-> IdleRest]
    /\ rk = IdleRank
    /\ kq = IdleKeys

NextStore ==
    \/ \E p \in Procs : StoreRequest(p)
    \/ \E p \in Procs : LimiterExec(p)
    \/ \E p \in Procs : Decrement(p)
    \/ ResetKey
    \/ ClientCommand
    \/ LimiterStoreChanges
    \/ Elapse

SpecStore == InitStore /\ [][NextStore]_vars

\* the stock-analysis sessions alone.  The event loop runs a timer that is
\* due and a continuation whose promise is settled, and Redis answers or
\* rejects every command it was sent; nothing makes extractKeyMetrics settle
InitMetrics ==
    /\ providers = ProviderTable([n \in ProviderSet |-> n = "gemini"],
                                 [n \in ProviderSet |-> 0])
    /\ mr = [p \in Procs |-> IdleRequest]
    /\ invocations = 0
    /\ redisUp \in BOOLEAN
    /\ now = 0
    /\ redis = EmptyRedis
    /\ cs = [p \in Procs |-> IdleCache]
    /\ cacheOps = 0
    /\ lastSet = [k \in CacheKeys |-> NoLastSet]
    /\ ss = [p \in Procs |-> IdleSession]
    /\ rl = EmptyLimiter
    /\ rlStatus = InitialStatus
    /\ rlLog = [k \in LimiterKeys |-> <<>>]
    /\ rlFirst = [k \in LimiterKeys |-> NoTime]
    /\ requests = 0
    /\ rq = [p \in Procs |-> IdleRest]
    /\ rk = IdleRank
    /\ kq = IdleKeys

NextMetrics ==
    \/ \E p \in Procs : StockReceive(p)
    \/ \E p \in Procs : CacheChecked(p)
    \/ \E p \in Procs : ReplayNext(p)
    \/ \E p \in Procs : SearchReturns(p)
    \/ \E p \in Procs : SearchFails(p)
    \/ \E p \in Procs : StockRanked(p)
    \/ \E p \in Procs : StockAnalysisReturns(p)
    \/ \E p \in Procs : StockRecommendationReturns(p)
    \/ \E p \in Procs : GenerationFails(p)
    \/ \E p \in Procs : StreamChunk(p)
    \/ \E p \in Procs : GenerationEnds(p)
    \/ \E p \in Procs : MetricsResolve(p)
    \/ \E p \in Procs : MetricsReady(p)
    \/ \E p \in Procs : MetricsTimeout(p)
    \/ \E p \in Procs : Cached(p)
    \/ \E p \in Procs : GetRead(p)
    \/ \E p \in Procs : GetIncr(p)
    \/ \E p \in Procs : SetValue(p)
    \/ \E p \in Procs : SetCount(p)

\* the texts found in the cache: empty, one group of words, two groups, two
\* lines, and one character more than a slice
ReplayTexts ==
    { <<>>, <<"a", " ", "b">>, <<"a", " ", "b", " ", "c", " ", "d">>,
      <<"a", "\n", "b">>, [i \in 1 .. ReplayChars + 1 |-> "a"] }

ChatKey == generateKey(<<"q">>, <<>>, <<>>)
StockKey == generateKey(stockCacheQuery(<<"x">>, DefaultHorizon), <<>>, <<>>)

\* the streaming handlers on a cache that earlier sessions have filled: a
\* chat entry and a stock entry with the same text
InitReplay ==
    /\ providers = ProviderTable([n \in ProviderSet |-> n = "gemini"],
                                 [n \in ProviderSet |-> 0])
    /\ mr = [p \in Procs |-> IdleRequest]
    /\ invocations = 0
    /\ redisUp = TRUE
    /\ now = 0
    /\ \E text \in ReplayTexts :
          LET chat == [sources |-> <<1>>, response |-> text, query |-> <<"q">>]
              stock == [sources |-> <<1>>, analysis |-> text, metrics |-> "extracted",
                        stock_name |-> <<"x">>, time_horizon |-> DefaultHorizon]
          IN /\ redis =
                   [k \in RedisKeys |->
                       IF k = ValueKey(ChatKey)
                       THEN [present |-> TRUE, value |-> cacheText(chat, 0),
                             expireAt |-> ChatTTL]
                       ELSE IF k = ValueKey(StockKey)
                       THEN [present |-> TRUE, value |-> cacheText(stock, 0),
                             expireAt |-> StockTTL]
                       ELSE IF k = CountKey(ChatKey)
                       THEN [present |-> TRUE, value |-> 1, expireAt |-> ChatTTL]
                       ELSE IF k = CountKey(StockKey)
                       THEN [present |-> TRUE, value |-> 1, expireAt |-> StockTTL]
                       ELSE Absent]
             /\ lastSet =
                   [k \in CacheKeys |->
                       IF k = ChatKey
                       THEN [present |-> TRUE, data |-> chat, at |-> 0, ttl |-> ChatTTL]
                       ELSE IF k = StockKey
                       THEN [present |-> TRUE, data |-> stock, at |-> 0, ttl |-> StockTTL]
                       ELSE NoLastSet]
    /\ cs = [p \in Procs |-> IdleCache]
    /\ cacheOps = 0
    /\ ss = [p \in Procs |-> IdleSession]
    /\ rl = EmptyLimiter
    /\ rlStatus = InitialStatus
    /\ rlLog = [k \in LimiterKeys |-> <<>>]
    /\ rlFirst = [k \in LimiterKeys |-> NoTime]
    /\ requests = 0
    /\ rq = [p \in Procs |-> IdleRest]
    /\ rk = IdleRank
    /\ kq = IdleKeys

NextReplay ==
    \/ \E p \in Procs : ChatReceive(p)
    \/ \E p \in Procs : StockReceive(p)
    \/ \E p \in Procs : GetRead(p)
    \/ \E p \in Procs : GetIncr(p)
    \/ \E p \in Procs : CacheChecked(p)
    \/ \E p \in Procs : ReplayNext(p)

SpecReplay == InitReplay /\ [][NextReplay]_vars

SpecMetrics ==
    /\ InitMetrics
    /\ [][NextMetrics]_vars
    /\ \A p \in Procs :
          /\ WF_vars(MetricsTimeout(p))
          /\ WF_vars(MetricsReady(p))
          /\ WF_vars(Cached(p))
          /\ WF_vars(SetValue(p))
          /\ WF_vars(SetCount(p))

\* ----------------------------------------------------------- session claims
EventsOf(p, type) == {i \in DOMAIN ss[p].events : ss[p].events[i].type = type}

SourcesBeforeContent(p) ==
    \A i \in EventsOf(p, "content") : \E j \in EventsOf(p, "search_result") : j < i

\* C1 as stated: every streaming session that took the cache-hit or the
\* cache-miss path has, when its handler returns, emitted the sources event
\* exactly once, before its first content fragment.
C1_SourcesExactlyOnce ==
    \A p \in Procs :
        (ss[p].pc = "end" /\ ss[p].path \in {"hit", "miss"}) =>
            /\ Cardinality(EventsOf(p, "search_result")) = 1
            /\ SourcesBeforeContent(p)

\* C1 as amended: a streaming session emits the sources event at most once;
\* every content fragment is preceded by it, and a session that emitted
\* content or done has emitted it exactly once.
C1_SourcesOnceBeforeContent ==
    \A p \in Procs :
        /\ Cardinality(EventsOf(p, "search_result")) <= 1
        /\ SourcesBeforeContent(p)
        /\ (EventsOf(p, "content") # {} \/ EventsOf(p, "done") # {}) =>
              Cardinality(EventsOf(p, "search_result")) = 1

C1_Witness ==
    \E p, q \in Procs :
        /\ ss[p].kind = "chat" /\ ss[p].path = "miss" /\ EventsOf(p, "done") # {}
        /\ EventsOf(p, "content") # {}
        /\ ss[q].kind = "chat" /\ ss[q].path = "hit" /\ EventsOf(q, "done") # {}
        /\ EventsOf(q, "content") # {}

\* C2: a streaming session whose generation failed, every provider attempt
\* having failed, ends with exactly one error event, no done event and no
\* content fragment after the failure.
C2_GenerationFailureEndsInError ==
    \A p \in Procs :
        (ss[p].pc = "end" /\ ss[p].genFailed) =>
            /\ Cardinality(EventsOf(p, "error")) = 1
            /\ EventsOf(p, "done") = {}
            /\ \A i \in EventsOf(p, "content") : i <= ss[p].failedAt

\* the sources a session shows: the first five of a ranked list at most
Shown(ranked) ==
    [k \in 1 .. (IF Len(ranked) < SourcesShown THEN Len(ranked) ELSE SourcesShown) |->
        ranked[k]]

\* C21: on a cache miss the sources event of a session carries the first
\* min(5, n) documents of the n documents sortSources returned for the search
\* results, best first, and nothing else; of the six candidates with
\* similarities 0.2, 0.8, 0.35, 0.9, 0.3, 0.5 it carries the four above the
\* threshold in descending order.
C21_SourcesAreTopFiveRanked ==
    \A p \in Procs :
        (ss[p].path = "miss" /\ ss[p].pc # "end") =>
            \A i \in EventsOf(p, "search_result") :
                /\ ss[p].events[i].data =
                      Shown(rankedIds(searchQueryOf(ss[p]), rk.ids))
                /\ Len(ss[p].events[i].data) <= SourcesShown
                /\ (rk.ids = <<3, 9, 4, 1, 5, 2>> /\ rk.modelLoaded
                       /\ ~rk.queryEmbedFails) =>
                      ss[p].events[i].data = <<1, 9, 2, 4>>

C21_Witness ==
    \E p \in Procs :
        /\ ss[p].path = "miss" /\ ss[p].pc = "gen_request"
        /\ rk.ids = <<3, 9, 4, 1, 5, 2>> /\ rk.modelLoaded /\ ~rk.queryEmbedFails
        /\ \E i \in EventsOf(p, "search_result") : ss[p].events[i].data = <<1, 9, 2, 4>>

\* the entry a stock session found was written for its subject and horizon
FoundOwnEntry(p) ==
    /\ ss[p].pc = "cache_check" /\ ss[p].kind = "stock"
    /\ cs[p].pc = "returned" /\ cs[p].ret = "hit"
    /\ "stock_name" \in DOMAIN cs[p].got.data
    /\ cs[p].got.data.stock_name = ss[p].subject
    /\ cs[p].got.data.time_horizon = ss[p].horizon

LastEvent(frame) == frame.events[Len(frame.events)]

\* the handler of p takes a step
SessionSteps(p) ==
    ss'[p].pc # ss[p].pc \/ Len(ss'[p].events) # Len(ss[p].events)

\* C22: a stock-analysis session that finds an unexpired entry for its
\* subject and horizon replays it and ends with done carrying cached = true
\* and cache_age >= 0, the metrics sent just before; from the hit on it calls
\* neither search nor ranking nor a provider.
C22_StockHitEndsDoneCached ==
    [][\A p \in Procs :
          /\ (FoundOwnEntry(p) /\ SessionSteps(p)) =>
                ss'[p].pc = "replay" /\ ss'[p].path = "hit"
          /\ (ss[p].kind = "stock" /\ ss[p].path = "hit" /\ SessionSteps(p)) =>
                /\ ss[p].pc = "replay"
                /\ ss'[p].pc \in {"replay", "end"}
                /\ mr'[p] = IdleRequest
                /\ ss'[p].pc = "end" =>
                      /\ LastEvent(ss'[p]).type = "done"
                      /\ LastEvent(ss'[p]).data.cached
                      /\ LastEvent(ss'[p]).data.cache_age >= 0
                      /\ EventsOf(p, "error") = {}
                      /\ \A i \in DOMAIN ss'[p].events :
                            ss'[p].events[i].type \in
                               {"search_result", "processing", "content", "metrics",
                                "done"}]_vars

C22_Witness ==
    \E p \in Procs :
        /\ ss[p].pc = "end" /\ ss[p].kind = "stock" /\ ss[p].path = "hit"
        /\ LastEvent(ss[p]).type = "done"
        /\ LastEvent(ss[p]).data.cached
        /\ LastEvent(ss[p]).data.cache_age > 0

\* C23: with the cache store reachable, a session that generated its answer
\* and then sends done has by then written its result under its key, with TTL
\* 1800 s for a chat and 3600 s for a stock analysis.
C23_DoneAfterGeneratingIsCached ==
    [][\A p \in Procs :
          (redisUp /\ ss[p].path = "miss" /\ ss[p].pc # "end" /\ ss'[p].pc = "end"
              /\ LastEvent(ss'[p]).type = "done") =>
             /\ lastSet[ss[p].key].present
             /\ lastSet[ss[p].key].ttl =
                   (IF ss[p].kind = "chat" THEN ChatTTL ELSE StockTTL)]_vars

\* C24: a stock-analysis session that sent done has sent exactly one metrics
\* event, after all its content fragments and just before done, which is its
\* last event.
C24_OneMetricsBetweenContentAndDone ==
    \A p \in Procs :
        (ss[p].kind = "stock" /\ EventsOf(p, "done") # {}) =>
            /\ Cardinality(EventsOf(p, "metrics")) = 1
            /\ Cardinality(EventsOf(p, "done")) = 1
            /\ \A m \in EventsOf(p, "metrics") :
                  /\ \A c \in EventsOf(p, "content") : c < m
                  /\ \A d \in EventsOf(p, "done") : m < d
            /\ LastEvent(ss[p]).type = "done"

C24_Witness ==
    \E p, q \in Procs :
        /\ ss[p].kind = "stock" /\ ss[p].path = "miss" /\ ss[p].pc = "end"
        /\ EventsOf(p, "done") # {} /\ EventsOf(p, "content") # {}
        /\ \E m \in EventsOf(p, "metrics") : ss[p].events[m].data = "extracted"
        /\ ss[q].kind = "stock" /\ ss[q].path = "hit" /\ ss[q].pc = "end"
        /\ EventsOf(q, "done") # {} /\ EventsOf(q, "content") # {}
        /\ \E m \in EventsOf(q, "metrics") : ss[q].events[m].data = "extracted"

TerminalEvents(p) == EventsOf(p, "done") \cup EventsOf(p, "error")

\* C25: a streaming session sends at most one terminal event, done or error
\* and never both, and nothing after it: the terminal event is the last event
\* and the handler has returned.
C25_OneTerminalEventLast ==
    \A p \in Procs :
        /\ Cardinality(TerminalEvents(p)) <= 1
        /\ \A t \in TerminalEvents(p) : t = Len(ss[p].events) /\ ss[p].pc = "end"
        /\ ss[p].pc = "end" => Cardinality(TerminalEvents(p)) = 1

C25_Witness ==
    \E p, q \in Procs :
        /\ ss[p].pc = "end" /\ EventsOf(p, "done") # {} /\ EventsOf(p, "metrics") # {}
        /\ EventsOf(p, "content") # {}
        /\ ss[q].pc = "end" /\ EventsOf(q, "error") # {} /\ ss[q].path = "miss"

\* C26: when the race of a stock-analysis session is won by the timeout of the
\* metrics, the session sends the N/A placeholders and then done and returns;
\* no step of a session that waits for its metrics sends an error event.
C26_MetricsTimeoutAbsorbed ==
    [][\A p \in Procs :
          (ss[p].pc = "await_metrics" /\ SessionSteps(p)) =>
             /\ \A i \in DOMAIN ss'[p].events : ss'[p].events[i].type # "error"
             /\ ss[p].metrics = "pending" =>
                   /\ ss'[p].pc = "end"
                   /\ Len(ss'[p].events) = Len(ss[p].events) + 2
                   /\ ss'[p].events[Len(ss[p].events) + 1] =
                         [type |-> "metrics", data |-> "N/A"]
                   /\ LastEvent(ss'[p]).type = "done"]_vars

C26_Witness ==
    \E p \in Procs :
        /\ ss[p].pc = "end" /\ ss[p].kind = "stock" /\ ss[p].path = "miss"
        /\ EventsOf(p, "content") # {} /\ EventsOf(p, "error") = {}
        /\ Len(ss[p].events) >= 2
        /\ ss[p].events[Len(ss[p].events) - 1] = [type |-> "metrics", data |-> "N/A"]
        /\ LastEvent(ss[p]).type = "done"

\* C31: a session starts its cache lookup only from its ranking step, that
\* is after its search and its ranking have completed.
C31_LookupAfterRanking ==
    [][\A p \in Procs :
          (ss[p].pc # "cache_check" /\ ss'[p].pc = "cache_check") =>
             ss[p].pc = "ranking"]_vars

\* C32: a stock-analysis session that has left its content stream and waits
\* for its metrics eventually ends, with done or error as its last event,
\* also when extractKeyMetrics never settles.
C32_MetricsNeverBlockDone ==
    \A p \in Procs :
        (ss[p].kind = "stock" /\ ss[p].pc = "await_metrics") ~>
            (ss[p].pc = "end" /\ LastEvent(ss[p]).type \in {"done", "error"})

\* a session whose metrics never settled has ended while the other one still
\* waits for its own
C32_Witness ==
    \E p, q \in Procs :
        /\ ss[p].pc = "end" /\ ss[p].kind = "stock" /\ ss[p].path = "miss"
        /\ \E i \in DOMAIN ss[p].events :
              ss[p].events[i].type = "metrics" /\ ss[p].events[i].data = "N/A"
        /\ LastEvent(ss[p]).type = "done"
        /\ ss[q].pc = "await_metrics" /\ ss[q].metrics = "pending"

\* what the client of a session has received as content, in order
RECURSIVE ContentUpTo(_, _)
ContentUpTo(events, n) ==
    IF n = 0 THEN <<>>
    ELSE ContentUpTo(events, n - 1) \o
            (IF events[n].type = "content" THEN events[n].data ELSE <<>>)

ContentOf(p) == ContentUpTo(ss[p].events, Len(ss[p].events))

\* the sources a session sent
SourcesOf(p) ==
    ss[p].events[CHOOSE i \in DOMAIN ss[p].events : ss[p].events[i].type = "search_result"].data

\* a chat session that missed and has returned after sending done
ChatMissDone(p) ==
    /\ ss[p].pc = "end" /\ ss[p].kind = "chat" /\ ss[p].path = "miss"
    /\ LastEvent(ss[p]).type = "done"

\* C33: two chat sessions that missed on one key both generate and both
\* write; the entry under the key is the whole payload, sources and text, of
\* one of the two, the one whose set ran last, and a session that missed and
\* got its search results ends with done whatever the other one does.
C33_LastWriteWins ==
    /\ \A p \in Procs :
          (ss[p].pc = "end" /\ ss[p].kind = "chat" /\ ss[p].path = "miss"
              /\ EventsOf(p, "search_result") # {}) =>
             EventsOf(p, "error") = {} /\ LastEvent(ss[p]).type = "done"
    /\ \A p, q \in Procs, k \in CacheKeys :
          (/\ p # q /\ redisUp /\ ChatMissDone(p) /\ ChatMissDone(q)
           /\ \A j \in CacheKeys : lastSet[j].present <=> j = k) =>
             /\ \E r \in {p, q} :
                   /\ lastSet[k].data.response = ContentOf(r)
                   /\ lastSet[k].data.sources = SourcesOf(r)
             /\ redis[ValueKey(k)].present =>
                   redis[ValueKey(k)].value = cacheText(lastSet[k].data, lastSet[k].at)

C33_Witness ==
    \E p, q \in Procs, k \in CacheKeys :
        /\ p # q /\ redisUp /\ ChatMissDone(p) /\ ChatMissDone(q)
        /\ \A j \in CacheKeys : lastSet[j].present <=> j = k
        /\ ContentOf(p) # ContentOf(q) /\ SourcesOf(p) # SourcesOf(q)
        /\ redis[ValueKey(k)].present
        /\ JSONparse(redis[ValueKey(k)].value).data.response = ContentOf(q)
        /\ JSONparse(redis[ValueKey(k)].value).data.sources = SourcesOf(q)

EndsWith(text, suffix) ==
    /\ Len(text) >= Len(suffix)
    /\ SubSeq(text, Len(text) - Len(suffix) + 1, Len(text)) = suffix

\* the text of a cached payload
TextOf(data) == IF "response" \in DOMAIN data THEN data.response ELSE data.analysis

\* C36: no entry is written whose text is, or ends with, the message the
\* generator yields when its provider calls have failed.
C36_NoFailureTextStored ==
    \A k \in CacheKeys :
        lastSet[k].present =>
            /\ ~EndsWith(TextOf(lastSet[k].data), ChatErrorText)
            /\ ~EndsWith(TextOf(lastSet[k].data), StockErrorText)

\* a provider call of the session of p returns its result in this step: the
\* call of makeRequest, the analysis call of the stock generator, or a
\* fragment of a provider stream
ProviderCallReturns(p) ==
    \/ mr[p].pc = "calling" /\ mr'[p].pc = "returned"
    \/ ss[p].pc = "gen_analysis" /\ ss'[p].pc = "gen_recommend"
    \/ ss[p].pc = "gen_stream" /\ ss'[p].pc = "gen_stream"
          /\ ss'[p].streamed = ss[p].streamed + 1

\* C37: every provider call of a session that succeeds is counted in the
\* usage counter of a provider, in the step in which it returns.
C37_ProviderCallsCounted ==
    [][\A p \in Procs :
          ProviderCallReturns(p) =>
             \E n \in ProviderSet :
                providers'[n].currentUsage = providers[n].currentUsage + 1]_vars

\* C38: the content fragments of a session that replayed a cached entry and
\* ended with done, put together in the order sent, are the cached text.
C38_ReplayEqualsCachedText ==
    \A p \in Procs :
        (ss[p].pc = "end" /\ ss[p].path = "hit" /\ LastEvent(ss[p]).type = "done") =>
            ContentOf(p) =
               TextOf(lastSet[IF ss[p].kind = "chat" THEN ChatKey ELSE StockKey].data)

\* the step appends a content or a metrics event to the events of p's request
EmitsContentOrMetrics(p) ==
    /\ Len(ss'[p].events) > Len(ss[p].events)
    /\ \E j \in Len(ss[p].events) + 1 .. Len(ss'[p].events) :
          ss'[p].events[j].type \in {"content", "metrics"}

\* C39: two requests on one connection. The request of p1 is the first one
\* received (MayReceive), so it started before every event of p2's request:
\* once p2's request has emitted its done or error, no content or metrics
\* event of p1's request is emitted.
C39_NoContentAfterTerminal ==
    [][(ss["p2"].pc = "end" /\ LastEvent(ss["p2"]).type \in {"done", "error"}) =>
          ~EmitsContentOrMetrics("p1")]_vars

\* ------------------------------------------------------ key derivation claims
\* a text without its leading and trailing white space
Unpadded(str) ==
    LET inked == {i \in DOMAIN str : ~IsSpace(str[i])}
    IN IF inked = {} THEN <<>>
       ELSE LET lo == CHOOSE i \in inked : \A j \in inked : i <= j
                hi == CHOOSE i \in inked : \A j \in inked : i >= j
            IN SubSeq(str, lo, hi)

SameLetter(c, d) == c = d \/ UpperChar(c) = d \/ c = UpperChar(d)

\* two texts that differ at most in letter case and in surrounding white space
SameButCaseAndPadding(a, b) ==
    /\ Len(Unpadded(a)) = Len(Unpadded(b))
    /\ \A i \in 1 .. Len(Unpadded(a)) : SameLetter(Unpadded(a)[i], Unpadded(b)[i])

\* C12: two generateKey calls whose queries differ only in letter case and in
\* leading or trailing white space, with the same symbol and sources, return
\* the same key, in whichever order the calls are made.
C12_KeyIgnoresCaseAndPadding ==
    (kq.pc = "both" /\ SameButCaseAndPadding(kq.first, kq.second)) =>
        kq.key1 = kq.key2

C12_Witness ==
    /\ kq.pc = "both"
    /\ kq.first = <<" ", "Q", " ">>
    /\ kq.second = <<"q">>
    /\ kq.key1 = kq.key2
    /\ kq.key1.hash.query = <<"q">>

\* C13: the key of a free-text (chat) session never equals the key of a
\* subject (stock-analysis) session, and a session never reads an entry that
\* a session of the other category wrote.
C13_KeysNamespacedByCategory ==
    \A p, q \in Procs :
        /\ (ss[p].kind = "chat" /\ ss[p].pc = "cache_check"
               /\ ss[q].kind = "stock" /\ ss[q].pc = "cache_check") =>
              ss[p].key # ss[q].key
        /\ (ss[p].pc = "cache_check" /\ cs[p].pc = "returned" /\ cs[p].ret = "hit") =>
              IF ss[p].kind = "chat" THEN "response" \in DOMAIN cs[p].got.data
              ELSE "analysis" \in DOMAIN cs[p].got.data

\* ------------------------------------------------------ rate limiter claims
AiKey(ip) == redisKeyOf(keyGenerator("ai", ip))

\* C15: with the counter store reachable, the increments of one key inside
\* one window return totalHits 1, 2, 3, ... without gap or repeat, so the
\* increment after the N allowed by a profile reports a count above N.
C15_TotalHitsCountUp ==
    \A k \in LimiterKeys :
        /\ \A i \in DOMAIN rlLog[k] : rlLog[k][i] = i
        /\ rlLog[k] # <<>> => rl[k].present /\ rl[k].value = Len(rlLog[k])
        /\ \A ip \in Identities :
              (k = AiKey(ip) /\ Len(rlLog[k]) > AiApiMax) =>
                 rlLog[k][AiApiMax + 1] > AiApiMax

C15_Witness ==
    \E p \in Procs :
        /\ rq[p].pc = "end" /\ rq[p].profile = "ai" /\ rq[p].counted
        /\ rq[p].status = 429
        /\ Len(rlLog[AiKey(rq[p].ip)]) = AiApiMax + 1

\* C16: a request that finds the client of the limiter not ready, or whose
\* increment command fails, is never rejected by a profile, however many
\* requests its identity made before.
C16_LimiterFailsOpen ==
    \A p \in Procs :
        (rq[p].pc = "end" /\ rq[p].degraded # "no") =>
            /\ rq[p].status # 429
            /\ ~rq[p].counted

C16_Witness ==
    \E p, q \in Procs :
        /\ rq[p].pc = "end" /\ rq[p].degraded = "command failed"
        /\ rq[p].profile = "ai" /\ rq[p].status = 200
        /\ rl[AiKey(rq[p].ip)].present
        /\ rl[AiKey(rq[p].ip)].value = AiApiMax
        /\ rq[q].pc = "end" /\ rq[q].degraded = "not ready" /\ rq[q].status = 200
        /\ rq[q].profile = "ai" /\ rq[q].ip = rq[p].ip

\* C29: whatever hits, hits taken back, resets and expiries came before, the
\* count stored for a key of the limiter is not negative.
C29_CountNeverNegative ==
    \A k \in LimiterKeys : rl[k].present => rl[k].value >= 0

\* C30: a count of the strict profile is gone one window length after the
\* first hit that was counted in it, however many hits followed inside the
\* window.
C30_CountGoneAfterOneWindow ==
    \A ip \in Identities :
        LET k == AiKey(ip)
        IN (rl[k].present /\ rlFirst[k] # NoTime) =>
              now < rlFirst[k] + ceilSeconds(AiApiWindowMs)

\* ------------------------------------------------------------ server claims
RestRoutes == {"/chat", "/stock-analysis"}

\* the cache key of a REST request that carries its field
RestKey(frame) ==
    IF frame.route = "/chat" THEN generateKey(frame.query, <<>>, <<>>)
    ELSE generateKey(stockCacheQuery(frame.subject, frame.horizon), <<>>, <<>>)

CarriesField(frame) ==
    IF frame.route = "/chat" THEN frame.query # <<>> ELSE frame.subject # <<>>

\* C11: with the cache store unreachable for the whole run no cache call
\* throws, no session or request is served from the cache, no error event or
\* error response comes from the cache, and every session or request that
\* passed validation searches, ranks and generates, and ends with done or 200
\* unless search or generation failed.
C11_PipelineSurvivesCacheOutage ==
    \A p \in Procs :
        /\ cs[p].ret # "thrown"
        /\ ss[p].path # "hit" /\ rq[p].path # "hit" /\ ~rq[p].cached
        /\ \A i \in EventsOf(p, "error") : ss[p].events[i].data # CacheErrorMsg
        /\ rq[p].error # CacheErrorMsg
        /\ ss[p].pc \notin {"idle", "cache_check", "end"} => ss[p].path = "miss"
        /\ (ss[p].pc = "end" /\ ss[p].path = "miss" /\ EventsOf(p, "error") = {}) =>
              /\ EventsOf(p, "search_result") # {}
              /\ EventsOf(p, "done") # {}
        /\ (ss[p].pc = "end" /\ ss[p].path = "miss" /\ EventsOf(p, "error") # {}) =>
              \A i \in EventsOf(p, "error") : ss[p].events[i].data = SearchErrorMsg
        /\ (rq[p].pc = "end" /\ rq[p].path = "miss") =>
              \/ /\ rq[p].status = 200
                 /\ rq[p].called = {"cache", "search", "ranking", "provider"}
              \/ /\ rq[p].status = 500
                 /\ rq[p].error \in {SearchErrorMsg, NoProvidersMsg, ApiErrorMsg}

C11_Witness ==
    \E p, q \in Procs :
        /\ ~redisUp
        /\ ss[p].pc = "end" /\ ss[p].path = "miss" /\ EventsOf(p, "done") # {}
        /\ EventsOf(p, "content") # {}
        /\ rq[q].pc = "end" /\ rq[q].path = "miss" /\ rq[q].status = 200

SharedStateUnchanged ==
    /\ redis' = redis /\ rl' = rl /\ rlLog' = rlLog
    /\ providers' = providers /\ cs' = cs /\ mr' = mr

C27_SameOutcomeOnProviderFailure ==
    \A p, q \in Procs :
        (/\ ss[p].pc = "end" /\ ss[p].kind = "chat" /\ ss[p].path = "miss"
         /\ ss[p].genFailed
         /\ rq[q].pc = "end" /\ rq[q].route = "/chat" /\ rq[q].path = "miss"
         /\ rq[q].status = 500 /\ rq[q].error \in {NoProvidersMsg, ApiErrorMsg}) =>
            /\ EventsOf(p, "error") # {}
            /\ EventsOf(p, "done") = {}

\* the handler of the operation of p starts to run in this step
HandlerEntered(p) ==
    \/ ss[p].pc = "idle" /\ ss'[p].pc # "idle"
    \/ rq[p].pc \in {"idle", "limiting"} /\ rq'[p].pc \notin {"idle", "limiting", "end"}

\* C28: with the counter store of the limiter reachable, a chat operation of
\* either transport starts its handler only in a step in which a rate-limit
\* profile counts it, as a hit that is not above the maximum of the strict
\* profile.
C28_AdmissionIsCounted ==
    [][\A p \in Procs :
          (rlStatus = "ready" /\ HandlerEntered(p)) =>
             \E k \in LimiterKeys :
                /\ Len(rlLog'[k]) = Len(rlLog[k]) + 1
                /\ rlLog'[k][Len(rlLog'[k])] <= AiApiMax]_vars

\* ----------------------------------------------------------- ranking claims
ReturnedIds == [i \in DOMAIN rk.docs |-> rk.docs[i].id]

\* C18: on the embedding path and on the keyword path alike, no document
\* whose content is empty or only white space is among those sortSources
\* returns.
C18_NoBlankContentReturned ==
    (rk.pc = "returned" /\ rk.path \in {"primary", "fallback"}) =>
        \A i \in DOMAIN rk.docs :
            \E j \in DOMAIN rk.docs[i].content : ~IsSpace(rk.docs[i].content[j])

\* C19: on the primary path sortSources returns exactly the documents that
\* were scored with a similarity strictly above 0.3, each once, with that
\* similarity as relevance_score, in descending order of score; scores
\* 0.9, 0.5, 0.2, 0.35 give 0.9, 0.5, 0.35.
C19_PrimaryAboveThresholdDescending ==
    (rk.pc = "returned" /\ rk.path = "primary") =>
        /\ {rk.docs[i].id : i \in DOMAIN rk.docs} =
              {rk.ids[i] : i \in {j \in DOMAIN rk.ids :
                  /\ \E c \in DOMAIN DocTable[rk.ids[j]].content :
                        ~IsSpace(DocTable[rk.ids[j]].content[c])
                  /\ ~DocTable[rk.ids[j]].embedFails
                  /\ DocTable[rk.ids[j]].similarity > PrimaryThreshold}}
        /\ \A i, j \in DOMAIN rk.docs : i # j => rk.docs[i].id # rk.docs[j].id
        /\ \A i \in DOMAIN rk.docs :
              rk.docs[i].relevance_score = DocTable[rk.docs[i].id].similarity
        /\ \A i, j \in DOMAIN rk.docs :
              i < j => rk.docs[i].relevance_score >= rk.docs[j].relevance_score
        /\ rk.ids = <<1, 2, 3, 4>> => ReturnedIds = <<1, 2, 4>>

C19_Witness ==
    /\ rk.pc = "returned" /\ rk.path = "primary"
    /\ rk.ids = <<1, 2, 3, 4>>
    /\ [i \in DOMAIN rk.docs |-> rk.docs[i].relevance_score] = <<90, 50, 35>>

\* C20: sortSources never throws; when the embedding of the query or the
\* fallback scorer fails it returns every original document, in the original
\* order, each with relevance_score 0.5.
C20_FailureReturnsAllNeutral ==
    /\ ~rk.threw
    /\ (rk.pc = "returned" /\ rk.path = "failed") =>
          /\ ReturnedIds = rk.ids
          /\ \A i \in DOMAIN rk.docs :
                /\ rk.docs[i].relevance_score = NeutralScore /\ rk.docs[i].scale = 1
                /\ rk.docs[i].content = DocTable[rk.ids[i]].content
    /\ (rk.pc = "returned"
           /\ \/ rk.modelLoaded /\ rk.queryEmbedFails
              \/ ~rk.modelLoaded /\ rk.query = <<"(">> /\ rk.ids # <<>>) =>
          rk.path = "failed"

C20_Witness ==
    /\ rk.pc = "returned" /\ rk.path = "failed"
    /\ ~rk.modelLoaded /\ rk.query = <<"(">>
    /\ rk.ids = <<6, 3, 1>>
    /\ ReturnedIds = <<6, 3, 1>>

\* the score of the claim, times the number of query words, in hundredths
statedScore(queryWords, id) ==
    LET sum == matchesIn(queryWords, toLowerCase(DocTable[id].content)) * ContentWeight
               + matchesIn(queryWords, toLowerCase(DocTable[id].title)) * TitleWeight
    IN IF sum < ScoreCap * Len(queryWords) THEN sum ELSE ScoreCap * Len(queryWords)

\* C34: when the embedding model is not loaded sortSources returns exactly
\* the documents whose keyword score, min(1, sum / word count), is strictly
\* greater than 0.1, each with that score, in descending order of score.
C34_FallbackAboveTenthDescending ==
    (rk.pc = "returned" /\ ~rk.modelLoaded) =>
        LET queryWords == split(toLowerCase(rk.query), " ")
        IN /\ {rk.docs[i].id : i \in DOMAIN rk.docs} =
                 {rk.ids[i] : i \in {j \in DOMAIN rk.ids :
                     statedScore(queryWords, rk.ids[j]) >
                        FallbackThreshold * Len(queryWords)}}
           /\ \A i \in DOMAIN rk.docs :
                 rk.docs[i].relevance_score * Len(queryWords) =
                    statedScore(queryWords, rk.docs[i].id) * rk.docs[i].scale
           /\ \A i, j \in DOMAIN rk.docs :
                 i < j => rk.docs[i].relevance_score >= rk.docs[j].relevance_score

\* ------------------------------------------------ provider manager claims
Eligible(provs) ==
    {n \in ProviderSet : provs[n].key /\ provs[n].currentUsage < provs[n].dailyLimit}

LowestPriority(provs, S) ==
    CHOOSE n \in S : \A m \in S : provs[n].priority <= provs[m].priority

CallSucceeded(p) == mr[p].pc = "calling" /\ mr'[p].pc = "returned"

CallFailed(p) ==
    /\ mr[p].pc = "calling"
    /\ \/ mr'[p].pc = "thrown"
       \/ Len(mr'[p].calls) > Len(mr[p].calls)

\* C3: inside one makeRequest invocation a call that follows a failed call
\* goes to a provider other than the one that failed, and no provider is
\* called twice.
C3_FallbackAvoidsFailedProvider ==
    \A p \in Procs : \A i, j \in DOMAIN mr[p].calls :
        i < j => mr[p].calls[i] # mr[p].calls[j]

\* C4: one makeRequest invocation makes at most two provider calls, the
\* primary and one fallback.
C4_AtMostTwoCalls ==
    \A p \in Procs : Len(mr[p].calls) <= 2

\* C5: the first call of a makeRequest invocation goes to the eligible
\* provider (credential present, currentUsage < dailyLimit) with the lowest
\* priority number; with gemini at quota and openai eligible it goes to openai.
C5_FirstCallLowestPriority ==
    [][\A p \in Procs :
          (mr[p].pc = "idle" /\ mr'[p].pc = "calling") =>
             /\ Eligible(providers) # {}
             /\ mr'[p].calls = <<LowestPriority(providers, Eligible(providers))>>
             /\ mr'[p].provider = mr'[p].calls[1]
             /\ (~(providers["gemini"].currentUsage < GeminiDailyLimit)
                    /\ "openai" \in Eligible(providers)
                 => mr'[p].provider = "openai")]_vars

C5_Witness ==
    \E p \in Procs :
        /\ mr[p].pc = "calling"
        /\ mr[p].calls = <<"openai">>
        /\ providers["gemini"].key
        /\ providers["gemini"].currentUsage = GeminiDailyLimit

\* C6: with no eligible provider makeRequest fails with 'No AI providers
\* available', calls no provider and changes no usage counter.
C6_NoProviderAvailable ==
    [][\A p \in Procs :
          (mr[p].pc = "idle" /\ mr'[p].pc # "idle" /\ Eligible(providers) = {}) =>
             /\ mr'[p].pc = "thrown"
             /\ mr'[p].error = NoProvidersMsg
             /\ mr'[p].calls = <<>>
             /\ providers' = providers]_vars

C6_Witness ==
    \E p \in Procs :
        /\ mr[p].pc = "thrown"
        /\ mr[p].error = NoProvidersMsg
        /\ mr[p].calls = <<>>
        /\ \A n \in ProviderSet : providers[n].key
        /\ providers["gemini"].currentUsage = GeminiDailyLimit
        /\ providers["openai"].currentUsage = OpenAIDailyLimit

\* C7: a successful provider call increments the usage counter of the
\* provider that answered by exactly one and no other counter; a failed call
\* changes no counter; nothing else but the daily reset changes a counter.
C7_UsageCountedOnSuccessOnly ==
    [][/\ \A p \in Procs :
            CallSucceeded(p) =>
               \A n \in ProviderSet :
                  providers'[n].currentUsage =
                     IF n = mr[p].provider THEN providers[n].currentUsage + 1
                     ELSE providers[n].currentUsage
       /\ \A p \in Procs : CallFailed(p) => providers' = providers
       /\ providers' # providers =>
             \/ \E p \in Procs : CallSucceeded(p)
             \/ \A n \in ProviderSet : providers'[n].currentUsage = 0]_vars

C7_Witness ==
    \E p, q \in Procs :
        /\ mr[p].pc = "returned"
        /\ mr[p].response.provider = "openai"
        /\ mr[p].calls = <<"gemini", "openai">>
        /\ providers["openai"].currentUsage = 1
        /\ providers["gemini"].currentUsage = GeminiDailyLimit
        /\ mr[q].pc = "returned" /\ mr[q].response.provider = "gemini"

\* C35: whatever the number of makeRequest invocations in flight, the
\* currentUsage of a provider is at most its dailyLimit.
C35_UsageWithinDailyLimit ==
    \A n \in ProviderSet : providers[n].currentUsage <= providers[n].dailyLimit

\* ------------------------------------------------------------ cache claims
\* the ttl a set call asks for: its argument, or the default without one
RequestedTTL(ttl) == IF ttl = NoTTL THEN DefaultTTL ELSE ttl

GetReadStep(p) == cs[p].pc = "get_read" /\ cs'[p].pc # "get_read"

\* C8: with Redis reachable, a get of a key whose last set lies less than
\* its ttl back finds the payload of that set, unchanged, with the timestamp
\* of that set, and returns it; a get once the ttl has elapsed, or with no
\* entry set, is a miss.
C8_SetThenGet ==
    [][\A p \in Procs :
          /\ (GetReadStep(p) /\ redisUp) =>
                LET last == lastSet[cs[p].key]
                IN IF last.present /\ now < last.at + RequestedTTL(last.ttl)
                   THEN /\ cs'[p].pc = "get_incr"
                        /\ cs'[p].got.data = last.data
                        /\ cs'[p].got.timestamp = last.at * MillisPerSecond
                   ELSE cs'[p].pc = "returned" /\ cs'[p].ret = "miss"
          /\ (cs[p].pc = "get_incr" /\ cs'[p].pc = "returned" /\ redisUp) =>
                cs'[p].ret = "hit" /\ cs'[p].got = cs[p].got]_vars

C8_Witness ==
    \E p, q \in Procs :
        /\ cs[p].op = "get" /\ cs[p].ret = "hit"
        /\ cs[p].got.timestamp = 0
        /\ cs[q].op = "get" /\ cs[q].ret = "miss" /\ ~cs[q].failed
        /\ lastSet[cs[q].key].present
        /\ lastSet[cs[q].key].ttl = ChatTTL
        /\ now >= lastSet[cs[q].key].at + ChatTTL

\* C9: a get that found a present, unexpired entry returns it, also when the
\* update of the hit counter fails.
C9_ReadSurvivesCounterFailure ==
    \A p \in Procs :
        (cs[p].op = "get" /\ cs[p].pc = "returned" /\ cs[p].found) => cs[p].ret = "hit"

\* C10: get and set never throw; a get that met a connectivity failure
\* returns a miss and a set that met one returns false; set returns true
\* only after it stored the value and the hit counter, each with the
\* requested ttl.
C10_CacheNeverThrows ==
    /\ [](\A p \in Procs :
            /\ cs[p].ret # "thrown"
            /\ (cs[p].op = "get" /\ cs[p].failed) => cs[p].ret = "miss"
            /\ (cs[p].op = "set" /\ cs[p].failed) => cs[p].ret = "false")
    /\ [][\A p \in Procs :
            /\ (cs[p].op = "set" /\ cs[p].ret # "true" /\ cs'[p].ret = "true") =>
                  /\ cs[p].pc = "set_count"
                  /\ redis'[CountKey(cs[p].key)].present
                  /\ redis'[CountKey(cs[p].key)].value = 1
                  /\ redis'[CountKey(cs[p].key)].expireAt = now + RequestedTTL(cs[p].ttl)
            /\ (cs[p].pc = "set_value" /\ cs'[p].pc = "set_count") =>
                  /\ redis'[ValueKey(cs[p].key)].present
                  /\ redis'[ValueKey(cs[p].key)].expireAt = now + RequestedTTL(cs[p].ttl)
                  /\ JSONparse(redis'[ValueKey(cs[p].key)].value).data = cs[p].data
            /\ (cs[p].pc = "set_value" /\ cs'[p].pc # "set_value") =>
                  cs'[p].pc = "set_count" \/ cs'[p].ret = "false"]_vars

C10_Witness ==
    \E p, q \in Procs :
        /\ cs[p].op = "set" /\ cs[p].ret = "false" /\ cs[p].failed
        /\ redis[ValueKey(cs[p].key)].present
        /\ cs[q].op = "get" /\ cs[q].ret = "miss" /\ cs[q].failed /\ cs[q].found

\* C40: a hit counter exists only with an expiry and only while its value
\* key exists.
C40_CounterNeverOutlivesEntry ==
    \A k \in CacheKeys :
        redis[CountKey(k)].present =>
            /\ redis[CountKey(k)].expireAt # NoExpiry
            /\ redis[ValueKey(k)].present

====
